---- MODULE Spec2Model ----
(***************************************************************************)
(* Model of the GoldenEra client library: the RLP codec with list-wrapped  *)
(* optionals, the payload and transaction codecs, the signing pipeline and *)
(* the transaction builder.                                                *)
(*                                                                         *)
(* Conventions of the model:                                               *)
(*  - a nullable value is a sequence of length 0 (null) or 1 (the value);  *)
(*  - a byte string (Uint8Array) is a sequence of 0..255;                  *)
(*  - a hex string ('0x...' Address/Hash/Signature) is the sequence of its *)
(*    hex digits 0..15, the '0x' prefix left out;                          *)
(*  - a JavaScript string is the sequence of its code points;              *)
(*  - a thrown Error is the record [ok |-> FALSE, err |-> message].        *)
(* The secp256k1 and Keccak-256 primitives are external to the library and *)
(* are scaled down: a prime-order group written additively (a point is its *)
(* discrete logarithm) and a 32-byte checksum.                             *)
(***************************************************************************)
EXTENDS Integers, Sequences, FiniteSets, TLC

\* ------------------------------------------------------------------------
\* Nullable values
\* ------------------------------------------------------------------------
Null == <<>>

Some(v) == <<v>>

IsNull(o) == Len(o) = 0

\* ------------------------------------------------------------------------
\* types.ts: fixed widths and hex conversions
\* ------------------------------------------------------------------------
ADDRESS_SIZE == 20

HASH_SIZE == 32

SIGNATURE_SIZE == 65

\* A character of a literal is its value as a hex digit, or NonHexDigit for
\* a character that is none (a letter such as 'g' or 'z').
NonHexDigit == 16

\* bytes[i] = parseInt(two characters, 16): parseInt reads the longest prefix
\* of hex digits, gives NaN when there is none, and NaN is stored as 0.
parseInt16(hi, lo) == IF hi > 15 THEN 0 ELSE IF lo > 15 THEN hi ELSE hi * 16 + lo

\* hexToBytes: new Uint8Array(cleanHex.length / 2) has the integer part of
\* the length, so the last character of an odd-length literal is not read.
hexToBytes(hex) ==
    [i \in 1..(Len(hex) \div 2) |-> parseInt16(hex[2 * i - 1], hex[2 * i])]

\* bytesToHex: every byte becomes two hex digits (padStart(2, '0')).
bytesToHex(bytes) ==
    [i \in 1..(2 * Len(bytes)) |->
        IF i % 2 = 1 THEN bytes[(i + 1) \div 2] \div 16
                     ELSE bytes[i \div 2] % 16]

\* A byte string of n bytes b.
Repeat(b, n) == [i \in 1..n |-> b]

ZERO_ADDRESS == bytesToHex(Repeat(0, ADDRESS_SIZE))

NATIVE_TOKEN == ZERO_ADDRESS

Ok(v) == [ok |-> TRUE, v |-> v]

Err(msg) == [ok |-> FALSE, err |-> msg, name |-> "Error"]

\* A nullable value a call returned: return value ?? null, or what it threw.
OkSome(r) == IF r.ok THEN Ok(Some(r.v)) ELSE r

\* The first failed result of a sequence of results, all evaluated in order.
FirstErr(results) ==
    results[CHOOSE i \in 1..Len(results) :
                ~results[i].ok /\ \A j \in 1..(i - 1) : results[j].ok]

AllOk(results) == \A i \in 1..Len(results) : results[i].ok

\* toAddress / toHash / toSignature on a Uint8Array: length check, then hex.
toAddress(bytes) ==
    IF Len(bytes) # ADDRESS_SIZE THEN Err("Address must be 20 bytes")
    ELSE Ok(bytesToHex(bytes))

toHash(bytes) ==
    IF Len(bytes) # HASH_SIZE THEN Err("Hash must be 32 bytes")
    ELSE Ok(bytesToHex(bytes))

toSignature(bytes) ==
    IF Len(bytes) # SIGNATURE_SIZE THEN Err("Signature must be 65 bytes")
    ELSE Ok(bytesToHex(bytes))

\* ------------------------------------------------------------------------
\* rlp.ts: scalars
\* ------------------------------------------------------------------------
RECURSIVE toString16(_)
\* BigInt.prototype.toString(16) of a positive integer: no leading zero digit.
toString16(v) == IF v < 16 THEN <<v>> ELSE Append(toString16(v \div 16), v % 16)

RECURSIVE BigIntOfHex(_)
\* BigInt('0x...'): the value of a digit string, leading zeros allowed.
BigIntOfHex(hex) ==
    LET significant == {i \in 1..Len(hex) : hex[i] # 0}
    IN  IF significant = {} THEN 0
        ELSE IF hex[1] = 0
        THEN BigIntOfHex(SubSeq(hex, CHOOSE i \in significant : \A j \in significant : i <= j,
                                Len(hex)))
        ELSE BigIntOfHex(SubSeq(hex, 1, Len(hex) - 1)) * 16 + hex[Len(hex)]

\* encodeScalar without the case of zero.
encodeScalar_zeroByte(value) ==
    LET hex == toString16(value)
    IN  hexToBytes(IF Len(hex) % 2 # 0 THEN <<0>> \o hex ELSE hex)

encodeScalar(value) ==
    IF value = 0 THEN <<>>
    ELSE LET hex == toString16(value)
         IN  hexToBytes(IF Len(hex) % 2 # 0 THEN <<0>> \o hex ELSE hex)

decodeScalar(bytes) ==
    IF Len(bytes) = 0 THEN 0 ELSE BigIntOfHex(bytesToHex(bytes))

\* ------------------------------------------------------------------------
\* rlp.ts: RLPWriter.  A writer is the sequence of the elements its write
\* methods pushed, in call order; a write method is the element it pushes.
\* ------------------------------------------------------------------------
writeBytes(value) == [type |-> "bytes", data |-> value]

writeScalar(value) == [type |-> "bytes", data |-> encodeScalar(value)]

writeLongScalar(value) == writeScalar(value)

writeIntScalar(value) == writeScalar(value)

writeBigIntegerScalar(value) == writeScalar(value)

writeWeiScalar(value) == writeBigIntegerScalar(value)

writeRaw(rlpBytes) == [type |-> "raw", data |-> rlpBytes]

writeEmptyList == [type |-> "raw", data |-> <<192>>]

\* writeList(builder) and the legacy startList()/addList(sublist) pair both
\* push a 'list' element holding the sub-writer's elements.
addList(sublist) == [type |-> "list", data |-> sublist]

writeOptionalBytes(value) ==
    IF IsNull(value) THEN writeEmptyList ELSE addList(<<writeBytes(value[1])>>)

writeOptionalLongScalar(value) ==
    IF IsNull(value) THEN writeEmptyList ELSE addList(<<writeLongScalar(value[1])>>)

writeOptionalWeiScalar(value) ==
    IF IsNull(value) THEN writeEmptyList ELSE addList(<<writeBigIntegerScalar(value[1])>>)

writeOptionalRaw(value) ==
    IF IsNull(value) THEN writeEmptyList ELSE addList(<<writeRaw(value[1])>>)

\* The value is a Uint8Array here (TxEncoder converts the hash first).
writeOptionalBytes32(value) ==
    IF IsNull(value) THEN writeEmptyList ELSE addList(<<writeBytes(value[1])>>)

\* encodeLengthBytes: big-endian, no leading zero byte.
encodeLengthBytes(length) ==
    IF length < 256 THEN <<length>>
    ELSE IF length < 65536 THEN <<length \div 256, length % 256>>
    ELSE IF length < 16777216
         THEN <<length \div 65536, (length \div 256) % 256, length % 256>>
    ELSE <<length \div 16777216, (length \div 65536) % 256,
           (length \div 256) % 256, length % 256>>

\* encodeString without the single-byte case.
RLPWriter_encodeString_alwaysPrefixed(bytes) ==
    IF Len(bytes) <= 55 THEN <<128 + Len(bytes)>> \o bytes
    ELSE <<183 + Len(encodeLengthBytes(Len(bytes)))>>
             \o encodeLengthBytes(Len(bytes)) \o bytes

RLPWriter_encodeString(bytes) ==
    IF Len(bytes) = 0 THEN <<128>>
    ELSE IF Len(bytes) = 1 /\ bytes[1] < 128 THEN bytes
    ELSE IF Len(bytes) <= 55 THEN <<128 + Len(bytes)>> \o bytes
    ELSE LET lengthBytes == encodeLengthBytes(Len(bytes))
         IN  <<183 + Len(lengthBytes)>> \o lengthBytes \o bytes

encodeListHeader(payloadSize) ==
    IF payloadSize <= 55 THEN <<192 + payloadSize>>
    ELSE LET lengthBytes == encodeLengthBytes(payloadSize)
         IN  <<247 + Len(lengthBytes)>> \o lengthBytes

RECURSIVE ConcatRange(_, _, _)
\* The parts lo..hi of a sequence of byte strings, one after the other.
ConcatRange(parts, lo, hi) ==
    IF lo > hi THEN <<>>
    ELSE IF lo = hi THEN parts[lo]
    ELSE ConcatRange(parts, lo, (lo + hi) \div 2)
         \o ConcatRange(parts, ((lo + hi) \div 2) + 1, hi)

Concat(parts) == ConcatRange(parts, 1, Len(parts))

RECURSIVE encodeElements(_)
encodeElements(elements) ==
    LET encodedParts ==
            [i \in 1..Len(elements) |->
                IF elements[i].type = "bytes"
                THEN RLPWriter_encodeString(elements[i].data)
                ELSE IF elements[i].type = "raw" THEN elements[i].data
                ELSE encodeElements(elements[i].data)]
        payload == Concat(encodedParts)
    IN  encodeListHeader(Len(payload)) \o payload

RLPWriter_encode(w) == encodeElements(w)

\* ------------------------------------------------------------------------
\* The 'rlp' package: RLP.decode.  A decoded item is a Uint8Array
\* ([type |-> "bytes"]) or an Array of items ([type |-> "list"]); an index
\* past the end of a JavaScript array reads undefined ([type |-> "undefined"]).
\* ------------------------------------------------------------------------
BytesItem(bytes) == [type |-> "bytes", data |-> bytes]

ListItem(items) == [type |-> "list", data |-> items]

Undefined == [type |-> "undefined", data |-> <<>>]

ItemAt(items, i) == IF i <= Len(items) THEN items[i] ELSE Undefined

\* input.slice(from) with a 0-based start.
SliceFrom(input, from) == SubSeq(input, from + 1, Len(input))

Decoded(item, remainder) == [ok |-> TRUE, data |-> item, remainder |-> remainder]

\* decodeLength: big-endian; a leading zero byte is rejected.  Every input
\* of the model is shorter than 2^24 bytes, so a length of more than three
\* bytes always exceeds the input.
rlp_decodeLength(v) ==
    IF Len(v) = 0 \/ v[1] = 0 THEN Err("invalid RLP: extra zeros")
    ELSE IF Len(v) > 3 THEN Err("invalid RLP (safeSlice): end of slice is out of range")
    ELSE Ok(BigIntOfHex(bytesToHex(v)))

\* The header of the first item of a non-empty input: whether the item is a
\* list, and the positions of the first and the last byte of its content;
\* or the error _decode throws before it reads the content.
rlp_header(input) ==
    LET firstByte == input[1]
    IN  IF firstByte <= 127 THEN Ok([list |-> FALSE, from |-> 1, to |-> 1])
        ELSE IF firstByte <= 183
        THEN LET length == firstByte - 127
             IN  IF length > Len(input)
                 THEN Err("invalid RLP (safeSlice): end of slice is out of range")
                 ELSE IF length = 2 /\ input[2] < 128
                 THEN Err("invalid RLP encoding: invalid prefix, single byte < 0x80 are not prefixed")
                 ELSE Ok([list |-> FALSE, from |-> 2, to |-> length])
        ELSE IF firstByte <= 191
        THEN LET llength == firstByte - 182
             IN  IF Len(input) - 1 < llength
                 THEN Err("invalid RLP: not enough bytes for string length")
                 ELSE LET length == rlp_decodeLength(SubSeq(input, 2, llength))
                      IN  IF ~length.ok THEN length
                          ELSE IF length.v <= 55
                          THEN Err("invalid RLP: expected string length to be greater than 55")
                          ELSE IF length.v + llength > Len(input)
                          THEN Err("invalid RLP (safeSlice): end of slice is out of range")
                          ELSE Ok([list |-> FALSE, from |-> llength + 1,
                                   to |-> length.v + llength])
        ELSE IF firstByte <= 247
        THEN LET length == firstByte - 191
             IN  IF length > Len(input)
                 THEN Err("invalid RLP (safeSlice): end of slice is out of range")
                 ELSE Ok([list |-> TRUE, from |-> 2, to |-> length])
        ELSE LET llength == firstByte - 246
             IN  IF Len(input) - 1 < llength
                 THEN Err("invalid RLP (safeSlice): end of slice is out of range")
                 ELSE LET length == rlp_decodeLength(SubSeq(input, 2, llength))
                      IN  IF ~length.ok THEN length
                          ELSE IF length.v < 56 THEN Err("invalid RLP: encoded list too short")
                          ELSE IF llength + length.v > Len(input)
                          THEN Err("invalid RLP: total length is larger than the data")
                          ELSE Ok([list |-> TRUE, from |-> llength + 1,
                                   to |-> llength + length.v])

\* Where the first item of a non-empty input ends: an item whose header is
\* in error takes the rest of the input.
rlp_end(input, h) == IF h.ok THEN h.v.to ELSE Len(input)

RECURSIVE rlp_split(_)
rlp_cut(innerRemainder, end) ==
    <<SubSeq(innerRemainder, 1, end)>> \o rlp_split(SliceFrom(innerRemainder, end))

\* The while loop of _decode walks innerRemainder item by item: the bytes of
\* each item in turn.
rlp_split(innerRemainder) ==
    IF Len(innerRemainder) = 0 THEN <<>>
    ELSE rlp_cut(innerRemainder, rlp_end(innerRemainder, rlp_header(innerRemainder)))

\* decoded.push(d.data) for every item; the first error ends the loop.
rlp_collect(decoded) ==
    IF ~AllOk(decoded) THEN FirstErr(decoded)
    ELSE Ok([i \in 1..Len(decoded) |-> decoded[i].data])

\* A list item and the bytes after it, or the error its items raised.
rlp_list(items, remainder) ==
    IF ~items.ok THEN items ELSE Decoded(ListItem(items.v), remainder)

RECURSIVE rlp_decode(_)
rlp_decodeAll(parts) == <<>> \o [i \in 1..Len(parts) |-> rlp_decode(parts[i])]

\* The items of a list, decoded in order.
rlp_decodeItems(innerRemainder) == rlp_collect(rlp_decodeAll(rlp_split(innerRemainder)))

rlp_item(input, h) ==
    IF ~h.ok THEN h
    ELSE IF ~h.v.list
    THEN Decoded(BytesItem(SubSeq(input, h.v.from, h.v.to)), SliceFrom(input, h.v.to))
    ELSE rlp_list(rlp_decodeItems(SubSeq(input, h.v.from, h.v.to)), SliceFrom(input, h.v.to))

\* _decode: the first item of a non-empty input and the bytes after it.
rlp_decode(input) == rlp_item(input, rlp_header(input))

\* rlpDecode = RLP.decode(input): the empty input decodes to the empty byte
\* string; bytes left over after the first item are an error.
rlpDecode(input) ==
    IF Len(input) = 0 THEN Ok(BytesItem(<<>>))
    ELSE LET d == rlp_decode(input)
         IN  IF ~d.ok THEN d
             ELSE IF Len(d.remainder) # 0 THEN Err("invalid RLP: remainder must be zero")
             ELSE Ok(d.data)

\* ------------------------------------------------------------------------
\* enums.ts
\* ------------------------------------------------------------------------
MAINNET == 0

TESTNET == 1

V1 == 1

TRANSFER == 0

BIP_CREATE == 1

BIP_VOTE == 2

BIP_ADDRESS_ALIAS_ADD == 0

BIP_ADDRESS_ALIAS_REMOVE == 1

BIP_AUTHORITY_ADD == 2

BIP_AUTHORITY_REMOVE == 3

BIP_NETWORK_PARAMS_SET == 4

BIP_TOKEN_BURN == 5

BIP_TOKEN_CREATE == 6

BIP_TOKEN_MINT == 7

BIP_TOKEN_UPDATE == 8

PAYLOAD_BIP_VOTE == 9

DISAPPROVAL == 0

APPROVAL == 1

networkFromCode(code) ==
    IF code = 0 THEN Ok(MAINNET)
    ELSE IF code = 1 THEN Ok(TESTNET)
    ELSE Err("Unknown Network code")

txVersionFromCode(code) ==
    IF code = 1 THEN Ok(V1) ELSE Err("Unknown TxVersion code")

\* txTypeFromCode without the final throw: every code is a type.
txTypeFromCode_anyCode(code) == Ok(code)

txTypeFromCode(code) ==
    IF code = 0 THEN Ok(TRANSFER)
    ELSE IF code = 1 THEN Ok(BIP_CREATE)
    ELSE IF code = 2 THEN Ok(BIP_VOTE)
    ELSE Err("Unknown TxType code")

txPayloadTypeFromCode(code) ==
    IF code \in 0..9 THEN Ok(code) ELSE Err("Unknown TxPayloadType code")

\* ------------------------------------------------------------------------
\* rlp.ts: strings (TextEncoder / TextDecoder, UTF-8)
\* ------------------------------------------------------------------------
Utf8Of(cp) ==
    IF cp < 128 THEN <<cp>>
    ELSE IF cp < 2048 THEN <<192 + (cp \div 64), 128 + (cp % 64)>>
    ELSE <<224 + (cp \div 4096), 128 + ((cp \div 64) % 64), 128 + (cp % 64)>>

encodeString(str) == Concat([i \in 1..Len(str) |-> Utf8Of(str[i])])

IsCont(bytes, i) == i <= Len(bytes) /\ bytes[i] \in 128..191

RECURSIVE Utf8Decode(_)
\* TextDecoder.decode: a malformed byte decodes to U+FFFD.
Utf8Decode(bytes) ==
    IF Len(bytes) = 0 THEN <<>>
    ELSE IF bytes[1] < 128 THEN <<bytes[1]>> \o Utf8Decode(SliceFrom(bytes, 1))
    ELSE IF bytes[1] \in 194..223 /\ IsCont(bytes, 2)
    THEN <<(bytes[1] - 192) * 64 + (bytes[2] - 128)>> \o Utf8Decode(SliceFrom(bytes, 2))
    ELSE IF bytes[1] \in 224..239 /\ IsCont(bytes, 2) /\ IsCont(bytes, 3)
            /\ (bytes[1] - 224) * 4096 + (bytes[2] - 128) * 64 >= 2048
    THEN <<(bytes[1] - 224) * 4096 + (bytes[2] - 128) * 64 + (bytes[3] - 128)>>
         \o Utf8Decode(SliceFrom(bytes, 3))
    ELSE <<65533>> \o Utf8Decode(SliceFrom(bytes, 1))

\* ------------------------------------------------------------------------
\* rlp.ts: decoding helpers.  The TypeScript casts ('as Uint8Array') do
\* nothing at run time, so every helper is given whatever item RLP.decode
\* produced at that position.
\* ------------------------------------------------------------------------
TypeError == Err("TypeError")

decodeAddress(item) ==
    IF item.type = "undefined" THEN TypeError
    ELSE IF Len(item.data) # 20 THEN Err("Invalid address length, expected 20")
    ELSE IF item.type = "list" THEN TypeError
    ELSE toAddress(item.data)

decodeHash(item) ==
    IF item.type = "undefined" THEN TypeError
    ELSE IF Len(item.data) # 32 THEN Err("Invalid hash length, expected 32")
    ELSE IF item.type = "list" THEN TypeError
    ELSE toHash(item.data)

\* TextDecoder.decode(undefined) is the empty string.
decodeString(item) ==
    IF item.type = "undefined" THEN Ok(<<>>)
    ELSE IF item.type = "list" THEN TypeError
    ELSE Ok(Utf8Decode(item.data))

isEmptyList(item) == item.type \in {"list", "bytes"} /\ Len(item.data) = 0

\* The result is null or the item found: the only element of a list, or a
\* non-empty byte string that was not wrapped.
decodeOptionalBytes(item) ==
    IF isEmptyList(item) THEN Null
    ELSE IF item.type = "list" /\ Len(item.data) = 1 THEN Some(item.data[1])
    ELSE IF item.type = "bytes" THEN Some(item)
    ELSE Null

decodeOptionalAddress(item) ==
    LET bytes == decodeOptionalBytes(item)
    IN  IF IsNull(bytes) \/ Len(bytes[1].data) = 0 THEN Ok(Null)
        ELSE OkSome(decodeAddress(bytes[1]))

decodeOptionalHash(item) ==
    LET bytes == decodeOptionalBytes(item)
    IN  IF IsNull(bytes) \/ Len(bytes[1].data) = 0 THEN Ok(Null)
        ELSE OkSome(decodeHash(bytes[1]))

decodeOptionalString(item) ==
    LET bytes == decodeOptionalBytes(item)
    IN  IF IsNull(bytes) \/ Len(bytes[1].data) = 0 THEN Ok(Null)
        ELSE OkSome(decodeString(bytes[1]))

RECURSIVE toString10(_)
toString10(v) == IF v < 10 THEN <<v>> ELSE Append(toString10(v \div 10), v % 10)

RECURSIVE JsToString(_)
\* Array.prototype.toString / Uint8Array.prototype.toString of one element
\* of an array: the decimal values joined by commas.  A string with a comma
\* in it makes BigInt('0x...') throw.
JsToString(item) ==
    IF Len(item.data) = 0 THEN Ok(<<>>)
    ELSE IF Len(item.data) >= 2 THEN Err("SyntaxError: Cannot convert to a BigInt")
    ELSE IF item.type = "bytes" THEN Ok(toString10(item.data[1]))
    ELSE JsToString(item.data[1])

\* String.prototype.padStart(2, '0')
padStart2(str) == IF Len(str) = 0 THEN <<0, 0>> ELSE IF Len(str) = 1 THEN <<0>> \o str ELSE str

\* decodeScalar on whatever item stands at the position: bytesToHex maps
\* over an Array as it does over a Uint8Array.
decodeScalarItem(item) ==
    IF item.type = "undefined" THEN TypeError
    ELSE IF item.type = "bytes" THEN Ok(decodeScalar(item.data))
    ELSE IF Len(item.data) = 0 THEN Ok(0)
    ELSE LET strs == [i \in 1..Len(item.data) |-> JsToString(item.data[i])]
         IN  IF ~AllOk(strs) THEN FirstErr(strs)
             ELSE Ok(BigIntOfHex(Concat([i \in 1..Len(strs) |-> padStart2(strs[i].v)])))

decodeInt(item) == decodeScalarItem(item)

decodeBigint(item) == decodeScalarItem(item)

decodeOptionalBigint(item) ==
    IF isEmptyList(item) THEN Ok(Null)
    ELSE IF item.type = "list" /\ Len(item.data) = 1
    THEN OkSome(decodeScalarItem(item.data[1]))
    ELSE IF item.type = "bytes" THEN OkSome(decodeScalarItem(item))
    ELSE Ok(Null)

EMPTY_LIST == <<192>>

\* ------------------------------------------------------------------------
\* PayloadCodec.ts
\* ------------------------------------------------------------------------
\* value || null on a nullable string: null and '' both give null.
OrNull(str) == IF IsNull(str) \/ Len(str[1]) = 0 THEN Null ELSE str

writeOptionalString(value) ==
    IF IsNull(value) THEN writeEmptyList ELSE addList(<<writeBytes(encodeString(value[1]))>>)

writeOptionalAddressField(address) ==
    IF IsNull(address) THEN writeEmptyList ELSE addList(<<writeBytes(hexToBytes(address[1]))>>)

\* writeOptionalBigInteger taking 0n for no value.
writeOptionalBigInteger_zeroAbsent(value) ==
    IF IsNull(value) \/ value[1] = 0 THEN writeEmptyList
    ELSE addList(<<writeBigIntegerScalar(value[1])>>)

writeOptionalBigInteger(value) ==
    IF IsNull(value) THEN writeEmptyList ELSE addList(<<writeBigIntegerScalar(value[1])>>)

\* The elements written after the payload type, per variant.
PayloadFields(p) ==
    CASE p.payloadType = BIP_TOKEN_MINT ->
            <<writeBytes(hexToBytes(p.tokenAddress)),
              writeBytes(hexToBytes(p.recipient)),
              writeBigIntegerScalar(p.amount)>>
      [] p.payloadType = BIP_TOKEN_BURN ->
            <<writeBytes(hexToBytes(p.tokenAddress)),
              writeBytes(hexToBytes(p.sender)),
              writeBigIntegerScalar(p.amount)>>
      [] p.payloadType = BIP_TOKEN_CREATE ->
            <<writeBytes(encodeString(p.name)),
              writeBytes(encodeString(p.smallestUnitName)),
              writeIntScalar(p.numberOfDecimals),
              writeOptionalString(OrNull(p.websiteUrl)),
              writeOptionalString(OrNull(p.logoUrl)),
              writeOptionalBigInteger(p.maxSupply),
              writeIntScalar(IF p.userBurnable THEN 1 ELSE 0)>>
      [] p.payloadType = BIP_TOKEN_UPDATE ->
            <<writeBytes(hexToBytes(p.tokenAddress)),
              writeOptionalString(p.name),
              writeOptionalString(p.smallestUnitName),
              writeOptionalString(p.websiteUrl),
              writeOptionalString(p.logoUrl)>>
      [] p.payloadType = PAYLOAD_BIP_VOTE ->
            <<writeIntScalar(p.voteType)>>
      [] p.payloadType = BIP_ADDRESS_ALIAS_ADD ->
            <<writeBytes(encodeString(p.alias)), writeBytes(hexToBytes(p.address))>>
      [] p.payloadType = BIP_ADDRESS_ALIAS_REMOVE ->
            <<writeBytes(encodeString(p.alias))>>
      [] p.payloadType \in {BIP_AUTHORITY_ADD, BIP_AUTHORITY_REMOVE} ->
            <<writeBytes(hexToBytes(p.authorityAddress))>>
      [] p.payloadType = BIP_NETWORK_PARAMS_SET ->
            <<writeOptionalWeiScalar(p.blockReward),
              writeOptionalAddressField(p.blockRewardPoolAddress),
              writeOptionalLongScalar(p.targetMiningTimeMs),
              writeOptionalLongScalar(p.asertHalfLifeBlocks),
              writeOptionalBigInteger(p.minDifficulty),
              writeOptionalWeiScalar(p.minTxBaseFee),
              writeOptionalWeiScalar(p.minTxByteFee)>>

\* encodePayload with the payload type written after the fields.
encodePayload_typeLast(payload, version) ==
    IF IsNull(payload) THEN EMPTY_LIST
    ELSE RLPWriter_encode(PayloadFields(payload[1])
                          \o <<writeIntScalar(payload[1].payloadType)>>)

encodePayload(payload, version) ==
    IF IsNull(payload) THEN EMPTY_LIST
    ELSE RLPWriter_encode(<<writeIntScalar(payload[1].payloadType)>>
                          \o PayloadFields(payload[1]))

\* The switch of decodePayload: the decoders of the variant's fields, called
\* in the order of the source on the items at their positions (data[1] of
\* the source is ItemAt(data, 2)).
DecodePayloadItems(type, data) ==
    IF type \in {BIP_TOKEN_MINT, BIP_TOKEN_BURN}
    THEN <<decodeAddress(ItemAt(data, 2)), decodeAddress(ItemAt(data, 3)),
           decodeBigint(ItemAt(data, 4))>>
    ELSE IF type = BIP_TOKEN_CREATE
    THEN <<decodeString(ItemAt(data, 2)), decodeString(ItemAt(data, 3)),
           decodeInt(ItemAt(data, 4)), decodeOptionalString(ItemAt(data, 5)),
           decodeOptionalString(ItemAt(data, 6)), decodeOptionalBigint(ItemAt(data, 7)),
           decodeInt(ItemAt(data, 8))>>
    ELSE IF type = BIP_TOKEN_UPDATE
    THEN <<decodeAddress(ItemAt(data, 2)), decodeOptionalString(ItemAt(data, 3)),
           decodeOptionalString(ItemAt(data, 4)), decodeOptionalString(ItemAt(data, 5)),
           decodeOptionalString(ItemAt(data, 6))>>
    ELSE IF type = PAYLOAD_BIP_VOTE
    THEN <<decodeInt(ItemAt(data, 2))>>
    ELSE IF type = BIP_ADDRESS_ALIAS_ADD
    THEN <<decodeString(ItemAt(data, 2)), decodeAddress(ItemAt(data, 3))>>
    ELSE IF type = BIP_ADDRESS_ALIAS_REMOVE
    THEN <<decodeString(ItemAt(data, 2))>>
    ELSE IF type \in {BIP_AUTHORITY_ADD, BIP_AUTHORITY_REMOVE}
    THEN <<decodeAddress(ItemAt(data, 2))>>
    ELSE \* BIP_NETWORK_PARAMS_SET
         <<decodeOptionalBigint(ItemAt(data, 2)), decodeOptionalAddress(ItemAt(data, 3)),
           decodeOptionalBigint(ItemAt(data, 4)), decodeOptionalBigint(ItemAt(data, 5)),
           decodeOptionalBigint(ItemAt(data, 6)), decodeOptionalBigint(ItemAt(data, 7)),
           decodeOptionalBigint(ItemAt(data, 8))>>

\* The switch of decodePayload: the payload returned, r being what the
\* decoders of its fields returned; the first exception is thrown on.
DecodePayloadFields(type, r) ==
    IF ~AllOk(r) THEN FirstErr(r)
    ELSE IF type = BIP_TOKEN_MINT
    THEN Ok(Some([payloadType |-> type, tokenAddress |-> r[1].v,
                  recipient |-> r[2].v, amount |-> r[3].v]))
    ELSE IF type = BIP_TOKEN_BURN
    THEN Ok(Some([payloadType |-> type, tokenAddress |-> r[1].v,
                  sender |-> r[2].v, amount |-> r[3].v]))
    ELSE IF type = BIP_TOKEN_CREATE
    THEN Ok(Some([payloadType |-> type,
                  name |-> r[1].v,
                  smallestUnitName |-> r[2].v,
                  numberOfDecimals |-> r[3].v,
                  \* decodeOptionalString(...) ?? ''
                  websiteUrl |-> IF IsNull(r[4].v) THEN Some(<<>>) ELSE r[4].v,
                  logoUrl |-> IF IsNull(r[5].v) THEN Some(<<>>) ELSE r[5].v,
                  \* decodeOptionalBigint(...) ?? 0n
                  maxSupply |-> IF IsNull(r[6].v) THEN Some(0) ELSE r[6].v,
                  userBurnable |-> (r[7].v = 1)]))
    ELSE IF type = BIP_TOKEN_UPDATE
    THEN Ok(Some([payloadType |-> type, tokenAddress |-> r[1].v,
                  name |-> r[2].v, smallestUnitName |-> r[3].v,
                  websiteUrl |-> r[4].v, logoUrl |-> r[5].v]))
    ELSE IF type = PAYLOAD_BIP_VOTE
    THEN Ok(Some([payloadType |-> type, voteType |-> r[1].v]))
    ELSE IF type = BIP_ADDRESS_ALIAS_ADD
    THEN Ok(Some([payloadType |-> type, alias |-> r[1].v, address |-> r[2].v]))
    ELSE IF type = BIP_ADDRESS_ALIAS_REMOVE
    THEN Ok(Some([payloadType |-> type, alias |-> r[1].v]))
    ELSE IF type \in {BIP_AUTHORITY_ADD, BIP_AUTHORITY_REMOVE}
    THEN Ok(Some([payloadType |-> type, authorityAddress |-> r[1].v]))
    ELSE \* BIP_NETWORK_PARAMS_SET
         Ok(Some([payloadType |-> type,
                  blockReward |-> r[1].v,
                  blockRewardPoolAddress |-> r[2].v,
                  targetMiningTimeMs |-> r[3].v,
                  asertHalfLifeBlocks |-> r[4].v,
                  minDifficulty |-> r[5].v,
                  minTxBaseFee |-> r[6].v,
                  minTxByteFee |-> r[7].v]))

\* decodePayload from the list found (data is an Array by now).
DecodePayloadList(data) ==
    IF Len(data) = 0 THEN Ok(Null)
    ELSE LET \* unwrap the optional wrapper if present
             inner == IF Len(data) = 1 /\ data[1].type = "list" THEN data[1].data ELSE data
         IN  IF Len(inner) = 0 THEN Ok(Null)
             ELSE LET code == decodeInt(inner[1])
                  IN  IF ~code.ok THEN code
                      ELSE LET type == txPayloadTypeFromCode(code.v)
                           IN  IF ~type.ok THEN type
                               ELSE DecodePayloadFields(
                                        type.v, DecodePayloadItems(type.v, inner))

\* The list decodePayload goes on with: data itself, or what rlpDecode made
\* of a Uint8Array.
PayloadList(data) ==
    IF data.type = "list" THEN Ok(data)
    ELSE LET decoded == rlpDecode(data.data)
         IN  IF ~decoded.ok THEN decoded
             ELSE IF decoded.v.type # "list" THEN Err("Invalid payload: expected list")
             ELSE decoded

decodePayload(data, version) ==
    IF data.type = "undefined" THEN Ok(Null)
    ELSE IF data.type = "bytes"
            /\ (Len(data.data) = 0 \/ (Len(data.data) = 1 /\ data.data[1] = 192))
    THEN Ok(Null)
    ELSE LET list == PayloadList(data)
         IN  IF ~list.ok THEN list ELSE DecodePayloadList(list.v.data)

\* ------------------------------------------------------------------------
\* External primitives, scaled down.
\*
\* keccak256 (viem): a 32-byte digest.  The model's digest is an Adler-style
\* checksum of the input spread over 32 bytes: a function of the whole
\* input, equal on equal inputs.
\* ------------------------------------------------------------------------
ChecksumModulus == 65521

RECURSIVE WeightedSum(_, _, _, _)
\* The sum of weight * byte over the bytes lo..hi, the weight of byte i being
\* 1 (plain) or the number of bytes from i to the end (n - i + 1).
WeightedSum(bytes, lo, hi, weighted) ==
    CASE lo > hi -> 0
      [] lo = hi ->
            (IF weighted THEN (Len(bytes) - lo + 1) * bytes[lo] ELSE bytes[lo])
                % ChecksumModulus
      [] lo < hi ->
            (WeightedSum(bytes, lo, (lo + hi) \div 2, weighted)
             + WeightedSum(bytes, ((lo + hi) \div 2) + 1, hi, weighted)) % ChecksumModulus

\* The two running sums over the first n bytes.
Checksum(bytes, n) ==
    <<(1 + WeightedSum(bytes, 1, n, FALSE)) % ChecksumModulus,
      (n + WeightedSum(bytes, 1, n, TRUE)) % ChecksumModulus>>

keccak256(bytes) ==
    LET c == Checksum(bytes, Len(bytes))
    IN  [i \in 1..HASH_SIZE |->
            (c[1] * (i + 7) + c[2] * (2 * i + 1) + (c[1] \div 256) + i * i) % 256]

\* hash(data) of PrivateKey.ts: the digest as a Hash (hex).
hash(data) == bytesToHex(keccak256(data))

\* ------------------------------------------------------------------------
\* secp256k1 (@noble/curves), scaled down to a group of prime order CURVE_N
\* written additively: a point is its discrete logarithm to the base G = 1,
\* 0 is the point at infinity.  A point P and its negative CURVE_N - P have
\* the same x-coordinate; the parity of y tells them apart.
\* ------------------------------------------------------------------------
CURVE_N == 251

HALF_CURVE_ORDER == CURVE_N \div 2

PrivateKeys == {7, 250}

PointX(P) == IF P <= CURVE_N - P THEN P ELSE CURVE_N - P

PointYOdd(P) == IF P > CURVE_N - P THEN 1 ELSE 0

ModInv(a) == CHOOSE x \in 1..(CURVE_N - 1) : (a * x) % CURVE_N = 1

RECURSIVE ModOfRange(_, _, _)
\* The big-endian value of the bytes lo..hi and 256 ^ (hi - lo + 1), both
\* modulo CURVE_N.
ModOfRange(bytes, lo, hi) ==
    IF lo > hi THEN <<0, 1>>
    ELSE IF lo = hi THEN <<bytes[lo] % CURVE_N, 256 % CURVE_N>>
    ELSE LET left == ModOfRange(bytes, lo, (lo + hi) \div 2)
             right == ModOfRange(bytes, ((lo + hi) \div 2) + 1, hi)
         IN  <<(left[1] * right[2] + right[1]) % CURVE_N, (left[2] * right[2]) % CURVE_N>>

\* bits2int_modN: the big-endian value of the bytes, modulo CURVE_N.
ModOfBytes(bytes) == ModOfRange(bytes, 1, Len(bytes))[1]

\* One candidate nonce k: r and s of the signature, or no signature when r
\* or s is zero (k2sig), then the low-S normalisation of the lowS option.
secp256k1_k2sig_keepParity(k, z, d, lowS) ==
    LET r == PointX(k) % CURVE_N
        s == (ModInv(k) * ((z + r * d) % CURVE_N)) % CURVE_N
        recovery == PointYOdd(k)
    IN  IF r = 0 \/ s = 0 THEN Null
        ELSE IF lowS /\ s > HALF_CURVE_ORDER
        THEN Some([r |-> r, s |-> CURVE_N - s, recovery |-> recovery])
        ELSE Some([r |-> r, s |-> s, recovery |-> recovery])

secp256k1_k2sig(k, z, d, lowS) ==
    LET r == PointX(k) % CURVE_N
        s == (ModInv(k) * ((z + r * d) % CURVE_N)) % CURVE_N
        recovery == PointYOdd(k)
    IN  IF r = 0 \/ s = 0 THEN Null
        ELSE IF lowS /\ s > HALF_CURVE_ORDER
        THEN Some([r |-> r, s |-> CURVE_N - s, recovery |-> 1 - recovery])
        ELSE Some([r |-> r, s |-> s, recovery |-> recovery])

RECURSIVE NextValidNonce(_, _, _)
NextValidNonce(k, z, d) ==
    IF ~IsNull(secp256k1_k2sig(k, z, d, TRUE)) THEN k
    ELSE NextValidNonce(1 + (k % (CURVE_N - 1)), z, d)

\* Every nonce that yields a signature.
ValidNonces(z, d) ==
    {k \in 1..(CURVE_N - 1) : ~IsNull(secp256k1_k2sig(k, z, d, TRUE))}

\* The nonces of a signing call given fresh extraEntropy.
secp256k1_nonces_extraEntropy(z, d) ==
    {NextValidNonce(1 + ((d * 17 + z * 5 + 3 + e) % (CURVE_N - 1)), z, d) : e \in {0, 1}}

\* The nonces secp256k1.sign may use.  PrivateKey.sign passes no extraEntropy,
\* so the nonce is the one RFC 6979 derives from the key and the hash.
secp256k1_nonces(z, d) ==
    {NextValidNonce(1 + ((d * 17 + z * 5 + 3) % (CURVE_N - 1)), z, d)}

\* secp256k1.sign(hashBytes, key, {lowS: true}) with the nonce k.
secp256k1_sign(hashBytes, d, k) ==
    secp256k1_k2sig(k, ModOfBytes(hashBytes), d, TRUE)[1]

\* secp256k1.getPublicKey(key, false): 0x04, x (32 bytes), y (32 bytes).
secp256k1_getPublicKey(d) ==
    <<4>> \o Repeat(0, 31) \o <<PointX(d)>> \o Repeat(0, 30) \o <<PointYOdd(d), d>>

\* new secp256k1.Signature(r, s).addRecoveryBit(rec).recoverPublicKey(h)
\*   .toRawBytes(false): r and s are range-checked, the point R is lifted
\* from x = r and the parity bit, and Q = r^-1 (s R - z G).
secp256k1_recoverPublicKey(r, s, rec, hashBytes) ==
    IF r <= 0 \/ r >= CURVE_N \/ s <= 0 \/ s >= CURVE_N
    THEN Err("invalid signature: r and s must be in 1..n-1")
    ELSE IF r > HALF_CURVE_ORDER THEN Err("Point is not on curve")
    ELSE LET R == IF rec = 0 THEN r ELSE CURVE_N - r
             z == ModOfBytes(hashBytes)
             Q == (ModInv(r) * ((s * R + (CURVE_N - z)) % CURVE_N)) % CURVE_N
         IN  IF Q = 0 THEN Err("point at infinity")
             ELSE Ok(secp256k1_getPublicKey(Q))

\* ------------------------------------------------------------------------
\* PrivateKey.ts
\* ------------------------------------------------------------------------
\* String.prototype.padStart(64, '0') of a hex string.
padStart64(hex) == Repeat(0, 64 - Len(hex)) \o hex

\* `0x${hash.slice(-40)}`: the last 20 bytes of the digest, as an Address.
AddressOfPublicKey(publicKey) ==
    LET h == hash(publicKey) IN SubSeq(h, Len(h) - 39, Len(h))

getPublicKey(d) == SliceFrom(secp256k1_getPublicKey(d), 1)

getAddress(d) == AddressOfPublicKey(getPublicKey(d))

\* A signature whose last byte is the bare recovery id.
PrivateKey_sign_rawRecovery(d, messageHash, k) ==
    LET hashBytes == hexToBytes(messageHash)
        sig == secp256k1_sign(hashBytes, d, k)
        r == sig.r
        s == sig.s
        finalS == IF s > HALF_CURVE_ORDER THEN CURVE_N - s ELSE s
        recoveryId == sig.recovery
        v == recoveryId
        rBytes == hexToBytes(padStart64(toString16(r)))
        sBytes == hexToBytes(padStart64(toString16(finalS)))
    IN  toSignature(rBytes \o sBytes \o <<v>>).v

\* PrivateKey.sign(messageHash) with the nonce k of the primitive.
PrivateKey_sign(d, messageHash, k) ==
    LET hashBytes == hexToBytes(messageHash)
        sig == secp256k1_sign(hashBytes, d, k)
        r == sig.r
        s == sig.s
        finalS == IF s > HALF_CURVE_ORDER THEN CURVE_N - s ELSE s
        recoveryId == sig.recovery
        v == recoveryId + 27
        rBytes == hexToBytes(padStart64(toString16(r)))
        sBytes == hexToBytes(padStart64(toString16(finalS)))
    IN  toSignature(rBytes \o sBytes \o <<v>>).v

recoverAddress(messageHash, signature) ==
    LET hashBytes == hexToBytes(messageHash)
        sigBytes == hexToBytes(signature)
    IN  IF Len(sigBytes) # 65 THEN Err("Signature must be 65 bytes")
        ELSE LET r == BigIntOfHex(bytesToHex(SubSeq(sigBytes, 1, 32)))
                 s == BigIntOfHex(bytesToHex(SubSeq(sigBytes, 33, 64)))
                 v == sigBytes[65]
                 recoveryId == v - 27
             IN  IF recoveryId # 0 /\ recoveryId # 1 THEN Err("Invalid recovery id")
                 ELSE LET pub == secp256k1_recoverPublicKey(r, s, recoveryId, hashBytes)
                      IN  IF ~pub.ok THEN pub
                          ELSE Ok(AddressOfPublicKey(SliceFrom(pub.v, 1)))

validateSignature(messageHash, signature, expectedAddress) ==
    LET recovered == recoverAddress(messageHash, signature)
    IN  recovered.ok /\ recovered.v = expectedAddress

isSignatureStructurallyValid(signature) ==
    LET sigBytes == hexToBytes(signature)
    IN  IF Len(sigBytes) # 65 THEN FALSE
        ELSE LET v == sigBytes[65]
                 r == BigIntOfHex(bytesToHex(SubSeq(sigBytes, 1, 32)))
                 s == BigIntOfHex(bytesToHex(SubSeq(sigBytes, 33, 64)))
             IN  IF v # 27 /\ v # 28 THEN FALSE
                 ELSE IF r <= 0 \/ r >= CURVE_N THEN FALSE
                 ELSE IF s <= 0 \/ s >= CURVE_N THEN FALSE
                 ELSE IF s > HALF_CURVE_ORDER THEN FALSE
                 ELSE TRUE

\* ------------------------------------------------------------------------
\* TxEncoder.ts
\* ------------------------------------------------------------------------
writeOptionalAddress(address) ==
    IF IsNull(address) THEN writeEmptyList ELSE addList(<<writeBytes(hexToBytes(address[1]))>>)

isEmptyPayload(bytes) == Len(bytes) = 1 /\ bytes[1] = 192

\* A nullable hex string used as a condition: null and '' are falsy.
Truthy(str) == ~IsNull(str) /\ Len(str[1]) > 0

\* Lines 77-82: the payload's own encoding, written raw in a list.
writePayload(payloadBytes) ==
    IF Len(payloadBytes) = 0 \/ isEmptyPayload(payloadBytes) THEN writeEmptyList
    ELSE writeOptionalRaw(Some(payloadBytes))

\* Lines 88-90: the elements the signature step pushes, the 65 raw bytes if
\* requested and present.
writeSignature(tx, includeSignature) ==
    IF includeSignature /\ Truthy(tx.signature)
    THEN <<writeBytes(hexToBytes(tx.signature[1]))>>
    ELSE <<>>

\* encodeTxV1 with the fee written as an optional (list-wrapped) scalar.
encodeTxV1_feeWrapped(tx, includeSignature) ==
    RLPWriter_encode(
        <<writeIntScalar(tx.version), writeLongScalar(tx.timestamp), writeIntScalar(tx.type),
          writeIntScalar(tx.network), writeOptionalLongScalar(tx.nonce),
          writeOptionalAddress(tx.recipient), writeOptionalAddress(tx.tokenAddress),
          writeOptionalWeiScalar(tx.amount), writeOptionalWeiScalar(Some(tx.fee)),
          writeOptionalBytes(tx.message), writePayload(encodePayload(tx.payload, tx.version)),
          writeOptionalBytes32(IF Truthy(tx.referenceHash)
                               THEN Some(hexToBytes(tx.referenceHash[1])) ELSE Null)>>
        \o writeSignature(tx, includeSignature))

encodeTxV1(tx, includeSignature) ==
    RLPWriter_encode(
        <<writeIntScalar(tx.version),
          writeLongScalar(tx.timestamp),
          writeIntScalar(tx.type),
          writeIntScalar(tx.network),
          writeOptionalLongScalar(tx.nonce),
          writeOptionalAddress(tx.recipient),
          writeOptionalAddress(tx.tokenAddress),
          writeOptionalWeiScalar(tx.amount),
          writeWeiScalar(tx.fee),
          writeOptionalBytes(tx.message),
          writePayload(encodePayload(tx.payload, tx.version)),
          writeOptionalBytes32(IF Truthy(tx.referenceHash)
                               THEN Some(hexToBytes(tx.referenceHash[1]))
                               ELSE Null)>>
        \o writeSignature(tx, includeSignature))

\* TxVersion has the single member V1: every transaction of the model takes
\* the V1 branch of the switch.
encodeTx(tx, includeSignature) == encodeTxV1(tx, includeSignature)

\* ------------------------------------------------------------------------
\* TxUtil.ts
\* ------------------------------------------------------------------------
\* A signing hash that covers the signature.
hashForSigning_signed(tx) == hash(encodeTx(tx, TRUE))

hashForSigning(tx) == hash(encodeTx(tx, FALSE))

hashTx(tx) == hash(encodeTx(tx, TRUE))

sizeTx(tx) == Len(encodeTx(tx, TRUE))

\* ------------------------------------------------------------------------
\* TxDecoder.ts
\* ------------------------------------------------------------------------
\* nonce ?? 0n
OrZero(nonce) == IF IsNull(nonce) THEN Some(0) ELSE nonce

\* txVersionFromCode(Number(decodeBigint(item))), and so for the type and
\* the network.
txVersionFromCode_item(item) ==
    LET code == decodeBigint(item)
    IN  IF code.ok THEN txVersionFromCode(code.v) ELSE code

txTypeFromCode_item(item) ==
    LET code == decodeBigint(item)
    IN  IF code.ok THEN txTypeFromCode(code.v) ELSE code

networkFromCode_item(item) ==
    LET code == decodeBigint(item)
    IN  IF code.ok THEN networkFromCode(code.v) ELSE code

\* The message decodeOptionalBytes found.
decodeMessage(message) ==
    IF IsNull(message) THEN Ok(Null)
    ELSE IF message[1].type = "bytes" THEN Ok(Some(message[1].data))
    ELSE Err("message is not a byte string")

\* (tx as any).hash = hashTx(tx)
WithHash(tx) == [tx EXCEPT !.hash = Some(hashTx(tx))]

\* The fields of a Tx: those of the unsigned transaction and the derived ones.
SignedTx(u, signature, sender, txHash, size) ==
    [version |-> u.version, timestamp |-> u.timestamp, type |-> u.type,
     network |-> u.network, nonce |-> u.nonce, recipient |-> u.recipient,
     tokenAddress |-> u.tokenAddress, amount |-> u.amount, fee |-> u.fee,
     message |-> u.message, payload |-> u.payload, referenceHash |-> u.referenceHash,
     signature |-> signature, sender |-> sender, hash |-> txHash, size |-> size]

\* decodeTxV1 from the recovery of the sender on: the full transaction.
decodeTxV1_tx(partialTx, signature, sender, originalBytes) ==
    IF ~sender.ok THEN sender
    ELSE Ok(WithHash(SignedTx(partialTx, Some(signature), sender.v, Null,
                              Len(originalBytes))))

\* decodeTxV1 from the partial transaction on: the signing hash is that of
\* the decoded fields, the sender the address recovered from it.
decodeTxV1_partialTx(partialTx, signature, originalBytes) ==
    decodeTxV1_tx(partialTx, signature,
                  recoverAddress(hashForSigning(partialTx), signature), originalBytes)

\* decodeTxV1 after the twelve fields f were decoded: the signature check
\* and the partial transaction.
decodeTxV1_fields(f, sigBytes, originalBytes) ==
    IF ~AllOk(f) THEN FirstErr(f)
    ELSE IF sigBytes.type = "undefined" \/ Len(sigBytes.data) # 65
    THEN Err("Invalid signature length")
    ELSE IF sigBytes.type = "list" THEN TypeError
    ELSE decodeTxV1_partialTx(
             [version |-> f[1].v, timestamp |-> f[2].v, type |-> f[3].v,
              network |-> f[4].v, nonce |-> OrZero(f[5].v), recipient |-> f[6].v,
              tokenAddress |-> f[7].v, amount |-> f[8].v, fee |-> f[9].v,
              message |-> f[10].v, payload |-> f[11].v, referenceHash |-> f[12].v,
              signature |-> Null],
             toSignature(sigBytes.data).v, originalBytes)

\* items[i] of the source is ItemAt(items, i + 1).
decodeTxV1(items, originalBytes) ==
    decodeTxV1_fields(
        <<txVersionFromCode_item(ItemAt(items, 1)),
          decodeBigint(ItemAt(items, 2)),
          txTypeFromCode_item(ItemAt(items, 3)),
          networkFromCode_item(ItemAt(items, 4)),
          decodeOptionalBigint(ItemAt(items, 5)),
          decodeOptionalAddress(ItemAt(items, 6)),
          decodeOptionalAddress(ItemAt(items, 7)),
          decodeOptionalBigint(ItemAt(items, 8)),
          decodeBigint(ItemAt(items, 9)),
          \* a message that is itself a list is outside the inputs of the model
          decodeMessage(decodeOptionalBytes(ItemAt(items, 10))),
          decodePayload(ItemAt(items, 11), V1),
          decodeOptionalHash(ItemAt(items, 12))>>,
        ItemAt(items, 13), originalBytes)

\* decodeTx on what rlpDecode returned.
decodeTx_decoded(decoded, bytes) ==
    IF ~decoded.ok THEN decoded
    ELSE IF decoded.v.type # "list" THEN Err("Invalid RLP: Expected list")
    ELSE IF Len(decoded.v.data) < 1 THEN Err("Invalid RLP: Missing version field")
    ELSE LET version == txVersionFromCode_item(decoded.v.data[1])
         IN  IF ~version.ok THEN version ELSE decodeTxV1(decoded.v.data, bytes)

decodeTx(bytes) ==
    IF Len(bytes) = 0 THEN Err("Cannot decode empty bytes")
    ELSE decodeTx_decoded(rlpDecode(bytes), bytes)

\* ------------------------------------------------------------------------
\* TxBuilder.ts
\* ------------------------------------------------------------------------
\* The field initialisers of TxBuilder, the timestamp left open.
NewBuilder ==
    [version |-> V1, timestamp |-> 0, type |-> Null, network |-> Null,
     nonce |-> Null, recipient |-> Null, tokenAddress |-> Null, amount |-> Null,
     fee |-> 0, message |-> Null, payload |-> Null, referenceHash |-> Null]

\* new TxBuilder(): the initialisers, with Date.now() = now.
create(now) == [NewBuilder EXCEPT !.timestamp = now]

\* input.message.startsWith('0x'): code points of '0' and 'x'.
startsWith0x(str) == Len(str) >= 2 /\ str[1] = 48 /\ str[2] = 120

\* The hex digits of a '0x...' JavaScript string (digits, a-f, A-F).
HexDigitsOf(str) ==
    [i \in 1..(Len(str) - 2) |->
        LET c == str[i + 2]
        IN  IF c >= 48 /\ c <= 57 THEN c - 48
            ELSE IF c >= 97 /\ c <= 102 THEN c - 87
            ELSE c - 55]

\* An optional property of TxInput is <<>> when undefined and <<v>> when
\* given; a given message is [kind |-> "null" | "string" | "bytes", v |-> ...].
from(input, now) ==
    LET b0 == create(now)
        b1 == [b0 EXCEPT !.type = Some(input.type), !.network = Some(input.network),
                         !.nonce = Some(input.nonce)]
        b2 == IF input.version # <<>> THEN [b1 EXCEPT !.version = input.version[1]] ELSE b1
        b3 == IF input.timestamp # <<>> THEN [b2 EXCEPT !.timestamp = input.timestamp[1]] ELSE b2
        b4 == IF input.fee # <<>> THEN [b3 EXCEPT !.fee = input.fee[1]] ELSE b3
        b5 == IF input.recipient # <<>> THEN [b4 EXCEPT !.recipient = input.recipient[1]] ELSE b4
        b6 == IF input.tokenAddress # <<>>
              THEN [b5 EXCEPT !.tokenAddress = input.tokenAddress[1]] ELSE b5
        b7 == IF input.amount # <<>> THEN [b6 EXCEPT !.amount = input.amount[1]] ELSE b6
        b8 == IF input.payload # <<>> THEN [b7 EXCEPT !.payload = input.payload[1]] ELSE b7
        b9 == IF input.referenceHash # <<>>
              THEN [b8 EXCEPT !.referenceHash = input.referenceHash[1]] ELSE b8
    IN  IF input.message # <<>> /\ input.message[1].kind # "null"
        THEN IF input.message[1].kind = "string"
             THEN IF startsWith0x(input.message[1].v)
                  THEN [b9 EXCEPT !.message = Some(hexToBytes(HexDigitsOf(input.message[1].v)))]
                  ELSE [b9 EXCEPT !.message = Some(encodeString(input.message[1].v))]
             ELSE [b9 EXCEPT !.message = Some(input.message[1].v)]
        ELSE b9

\* class TxBuilderError extends Error
TxBuilderError(message) == [ok |-> FALSE, err |-> message, name |-> "TxBuilderError"]

\* A validation that looks at the nonce before the network.
validate_nonceFirst(b) ==
    IF IsNull(b.type) THEN TxBuilderError("Transaction type is required")
    ELSE IF IsNull(b.nonce) THEN TxBuilderError("Nonce is required")
    ELSE IF IsNull(b.network) THEN TxBuilderError("Network is required")
    ELSE IF b.type[1] = TRANSFER
    THEN IF IsNull(b.recipient) THEN TxBuilderError("Recipient is required for TRANSFER transactions")
         ELSE Ok(TRUE)
    ELSE IF b.type[1] = BIP_CREATE
    THEN IF IsNull(b.payload) THEN TxBuilderError("Payload is required for BIP_CREATE transactions")
         ELSE IF ~IsNull(b.amount)
         THEN TxBuilderError("BIP_CREATE transactions must have null amount. Use payload amount for TOKEN_MINT/BURN operations.")
         ELSE Ok(TRUE)
    ELSE IF b.type[1] = BIP_VOTE
    THEN IF IsNull(b.payload) THEN TxBuilderError("Payload is required for BIP_VOTE transactions")
         ELSE IF IsNull(b.referenceHash)
         THEN TxBuilderError("Reference hash is required for BIP_VOTE transactions")
         ELSE IF ~IsNull(b.amount)
         THEN TxBuilderError("BIP_VOTE transactions must have null amount.")
         ELSE Ok(TRUE)
    ELSE Ok(TRUE)

validate(b) ==
    IF IsNull(b.type) THEN TxBuilderError("Transaction type is required")
    ELSE IF IsNull(b.network) THEN TxBuilderError("Network is required")
    ELSE IF IsNull(b.nonce) THEN TxBuilderError("Nonce is required")
    ELSE IF b.type[1] = TRANSFER
    THEN IF IsNull(b.recipient) THEN TxBuilderError("Recipient is required for TRANSFER transactions")
         ELSE Ok(TRUE)
    ELSE IF b.type[1] = BIP_CREATE
    THEN IF IsNull(b.payload) THEN TxBuilderError("Payload is required for BIP_CREATE transactions")
         ELSE IF ~IsNull(b.amount)
         THEN TxBuilderError("BIP_CREATE transactions must have null amount. Use payload amount for TOKEN_MINT/BURN operations.")
         ELSE Ok(TRUE)
    ELSE IF b.type[1] = BIP_VOTE
    THEN IF IsNull(b.payload) THEN TxBuilderError("Payload is required for BIP_VOTE transactions")
         ELSE IF IsNull(b.referenceHash)
         THEN TxBuilderError("Reference hash is required for BIP_VOTE transactions")
         ELSE IF ~IsNull(b.amount)
         THEN TxBuilderError("BIP_VOTE transactions must have null amount.")
         ELSE Ok(TRUE)
    ELSE Ok(TRUE)

buildUnsigned(b) ==
    LET valid == validate(b)
    IN  IF ~valid.ok THEN valid
        ELSE Ok([version |-> b.version, timestamp |-> b.timestamp, type |-> b.type[1],
                 network |-> b.network[1], nonce |-> b.nonce, recipient |-> b.recipient,
                 tokenAddress |-> b.tokenAddress, amount |-> b.amount, fee |-> b.fee,
                 message |-> b.message, payload |-> b.payload,
                 referenceHash |-> b.referenceHash, signature |-> Null])

\* (tx as any).size = sizeTx(tx)
WithSize(tx) == [tx EXCEPT !.size = sizeTx(tx)]

\* sign(privateKey); k is the nonce the signing primitive draws.
sign(b, privateKey, k) ==
    LET unsignedTx == buildUnsigned(b)
    IN  IF ~unsignedTx.ok THEN unsignedTx
        ELSE Ok(WithSize(WithHash(SignedTx(unsignedTx.v,
                    Some(PrivateKey_sign(privateKey, hashForSigning(unsignedTx.v), k)),
                    getAddress(privateKey), Null, 0))))

computeSigningHash(b) ==
    LET unsignedTx == buildUnsigned(b)
    IN  IF ~unsignedTx.ok THEN unsignedTx ELSE Ok(hashForSigning(unsignedTx.v))

estimateSize(b) ==
    LET unsignedTx == buildUnsigned(b)
    IN  IF ~unsignedTx.ok THEN unsignedTx
        ELSE Ok(sizeTx(SignedTx(unsignedTx.v, Some(Repeat(0, 2 * 65)), NATIVE_TOKEN,
                                Some(Repeat(0, 2 * 32)), 0)))

\* ------------------------------------------------------------------------
\* The values the operations are called with.
\* ------------------------------------------------------------------------
\* The longest sequence of constructor and setter calls followed.
MaxCalls == 2

\* Date.now() at construction, and the arguments of timestamp().
Timestamps == {1000, 70000}

Addr1 == Repeat(1, 2 * ADDRESS_SIZE)

Addr2 == Repeat(10, 2 * ADDRESS_SIZE)

Hash1 == Repeat(11, 2 * HASH_SIZE)

Nonces == {0, 1}

Amounts == {0, 5}

Fees == {0, 3}

\* Uint8Array arguments of message(): empty, and two bytes.
Messages == {<<>>, <<0, 200>>}

\* Arguments of messageString(): 'h' and a two-byte character.
MessageStrings == {<<104>>, <<233>>}

\* Arguments of messageHex(): '0xab'.
MessageHexes == {<<10, 11>>}

VotePayloads ==
    {[payloadType |-> PAYLOAD_BIP_VOTE, voteType |-> APPROVAL],
     [payloadType |-> PAYLOAD_BIP_VOTE, voteType |-> DISAPPROVAL]}

TokenPayloads ==
    {[payloadType |-> BIP_TOKEN_MINT, tokenAddress |-> Addr2, recipient |-> Addr1, amount |-> 5],
     [payloadType |-> BIP_TOKEN_BURN, tokenAddress |-> Addr2, sender |-> Addr1, amount |-> 0],
     [payloadType |-> BIP_TOKEN_CREATE, name |-> <<84>>, smallestUnitName |-> <<116>>,
      numberOfDecimals |-> 8, websiteUrl |-> Some(<<119>>), logoUrl |-> Some(<<108>>),
      maxSupply |-> Some(9), userBurnable |-> TRUE],
     [payloadType |-> BIP_TOKEN_CREATE, name |-> <<84>>, smallestUnitName |-> <<116>>,
      numberOfDecimals |-> 0, websiteUrl |-> Null, logoUrl |-> Null,
      maxSupply |-> Null, userBurnable |-> FALSE],
     [payloadType |-> BIP_TOKEN_UPDATE, tokenAddress |-> Addr2, name |-> Some(<<78>>),
      smallestUnitName |-> Null, websiteUrl |-> Some(<<119>>), logoUrl |-> Null],
     [payloadType |-> BIP_TOKEN_UPDATE, tokenAddress |-> Addr2, name |-> Some(<<>>),
      smallestUnitName |-> Null, websiteUrl |-> Null, logoUrl |-> Null]}

GovernancePayloads ==
    {[payloadType |-> BIP_ADDRESS_ALIAS_ADD, alias |-> <<97>>, address |-> Addr1],
     [payloadType |-> BIP_ADDRESS_ALIAS_REMOVE, alias |-> <<97>>],
     [payloadType |-> BIP_AUTHORITY_ADD, authorityAddress |-> Addr1],
     [payloadType |-> BIP_AUTHORITY_REMOVE, authorityAddress |-> Addr1],
     [payloadType |-> BIP_NETWORK_PARAMS_SET, blockReward |-> Some(7),
      blockRewardPoolAddress |-> Some(Addr1), targetMiningTimeMs |-> Null,
      asertHalfLifeBlocks |-> Some(0), minDifficulty |-> Null,
      minTxBaseFee |-> Some(300), minTxByteFee |-> Null]}

Payloads == VotePayloads \cup TokenPayloads \cup GovernancePayloads

\* A TxInput with the required properties only.
BaseInput ==
    [type |-> TRANSFER, network |-> MAINNET, nonce |-> 1, version |-> <<>>,
     timestamp |-> <<>>, fee |-> <<>>, recipient |-> <<>>, tokenAddress |-> <<>>,
     amount |-> <<>>, payload |-> <<>>, referenceHash |-> <<>>, message |-> <<>>]

TxInputs ==
    {[BaseInput EXCEPT !.recipient = Some(Some(Addr1)), !.amount = Some(Some(5)),
                       !.fee = Some(3), !.tokenAddress = Some(Some(NATIVE_TOKEN)),
                       !.message = Some([kind |-> "string", v |-> <<104, 105>>])],
     [BaseInput EXCEPT !.network = TESTNET, !.nonce = 0, !.version = Some(V1),
                       !.timestamp = Some(300), !.recipient = Some(Some(Addr2)),
                       !.amount = Some(Some(0)), !.tokenAddress = Some(Null),
                       !.message = Some([kind |-> "string", v |-> <<48, 120, 97, 66>>])],
     [BaseInput EXCEPT !.recipient = Some(Some(Addr1)), !.timestamp = Some(70000),
                       !.message = Some([kind |-> "bytes", v |-> <<>>])]}
    \cup {[BaseInput EXCEPT !.type = BIP_CREATE, !.payload = Some(Some(p)),
                            !.timestamp = Some(300),
                            !.message = Some([kind |-> "null", v |-> <<>>])] :
             p \in TokenPayloads \cup GovernancePayloads}
    \cup {[BaseInput EXCEPT !.type = BIP_VOTE, !.payload = Some(Some(p)),
                            !.timestamp = Some(300),
                            !.referenceHash = Some(Some(Hash1)), !.fee = Some(3)] :
             p \in VotePayloads}

\* ------------------------------------------------------------------------
\* The state machine: one builder, the value its last build method returned,
\* and the pipeline encodeTx -> decodeTx applied to the transaction sign
\* returned.
\* ------------------------------------------------------------------------
VARIABLES
    builder,   \* the fields of the TxBuilder
    calls,     \* constructor and setter calls made after the first create()
    last,      \* the name of the last call
    result,    \* what the last build method returned or threw
    wire,      \* the bytes encodeTx returned for result's transaction
    decoded,   \* what decodeTx returned or threw for wire
    held       \* the transaction a caller holds from the first sign that returned

vars == <<builder, calls, last, result, wire, decoded, held>>

NoResult == [kind |-> "none"]

\* What a call leaves: the value of kind `kind`, or the error thrown.
Returned(kind, r) ==
    IF r.ok THEN [kind |-> kind, v |-> r.v]
    ELSE [kind |-> "error", err |-> r.err, name |-> r.name]

Init ==
    /\ \E now \in Timestamps : builder = create(now)
    /\ calls = 0
    /\ last = "create"
    /\ result = NoResult
    /\ wire = Null
    /\ decoded = NoResult
    /\ held = Null

\* A constructor or a setter leaves a builder and no built value; the model
\* follows chains of at most `bound` such calls.
ConfigureWithin(bound, name, b) ==
    /\ calls < bound
    /\ builder' = b
    /\ calls' = calls + 1
    /\ last' = name
    /\ result' = NoResult
    /\ wire' = Null
    /\ decoded' = NoResult
    /\ UNCHANGED held

Configure(name, b) == ConfigureWithin(MaxCalls, name, b)

\* TxBuilder.create()
Create(now) == Configure("create", create(now))

\* TxBuilder.from(input)
From(input, now) == Configure("from", from(input, now))

SetVersion(version) == Configure("version", [builder EXCEPT !.version = version])

SetTimestamp(timestamp) == Configure("timestamp", [builder EXCEPT !.timestamp = timestamp])

SetType(type) == Configure("type", [builder EXCEPT !.type = Some(type)])

SetNetwork(network) == Configure("network", [builder EXCEPT !.network = Some(network)])

\* nonce() setting the fee back to its default as well.
SetNonce_resetFee(nonce) ==
    Configure("nonce", [builder EXCEPT !.nonce = Some(nonce), !.fee = 0])

SetNonce(nonce) == Configure("nonce", [builder EXCEPT !.nonce = Some(nonce)])

SetRecipient(recipient) ==
    Configure("recipient", [builder EXCEPT !.recipient = Some(recipient)])

SetTokenAddress(tokenAddress) ==
    Configure("tokenAddress", [builder EXCEPT !.tokenAddress = tokenAddress])

SetAmount(amount) == Configure("amount", [builder EXCEPT !.amount = Some(amount)])

SetFee(fee) == Configure("fee", [builder EXCEPT !.fee = fee])

SetMessage(message) == Configure("message", [builder EXCEPT !.message = Some(message)])

SetMessageString(message) ==
    Configure("messageString", [builder EXCEPT !.message = Some(encodeString(message))])

SetMessageHex(message) ==
    Configure("messageHex", [builder EXCEPT !.message = Some(hexToBytes(message))])

SetPayload(payload) == Configure("payload", [builder EXCEPT !.payload = Some(payload)])

SetReferenceHash(h) ==
    Configure("referenceHash", [builder EXCEPT !.referenceHash = Some(h)])

\* A build method reads the builder and leaves it as it is, so what it
\* returns after another build method is what it returns right after the
\* last constructor or setter: the model calls it there.
Build(name, r) ==
    /\ result = NoResult
    /\ last' = name
    /\ result' = r
    /\ wire' = Null
    /\ decoded' = NoResult
    /\ UNCHANGED <<builder, calls, held>>

BuildUnsigned == Build("buildUnsigned", Returned("unsigned", buildUnsigned(builder)))

\* What sign(privateKey) returned; the key is kept with the transaction.
Signed(r, privateKey) ==
    IF r.ok THEN [kind |-> "tx", v |-> r.v, key |-> privateKey] ELSE Returned("tx", r)

\* sign(privateKey), for every nonce the signing primitive may draw.
Sign(privateKey) ==
    LET unsignedTx == buildUnsigned(builder)
    IN  \E k \in secp256k1_nonces(
                   IF unsignedTx.ok
                   THEN ModOfBytes(hexToBytes(hashForSigning(unsignedTx.v)))
                   ELSE 0,
                   privateKey) :
            Build("sign", Signed(sign(builder, privateKey, k), privateKey))

ComputeSigningHash ==
    Build("computeSigningHash", Returned("hash", computeSigningHash(builder)))

EstimateSize == Build("estimateSize", Returned("size", estimateSize(builder)))

\* encodeTx(tx, includeSignature) on the transaction sign returned.  It is
\* a pure function of its arguments: the model calls it once per transaction
\* and flag, and decodeTx once on the bytes it returned.
EncodeTx(includeSignature) ==
    /\ result.kind = "tx"
    /\ IsNull(wire)
    /\ wire' = Some([includeSignature |-> includeSignature,
                     bytes |-> encodeTx(result.v, includeSignature)])
    /\ last' = "encodeTx"
    /\ decoded' = NoResult
    /\ UNCHANGED <<builder, calls, result, held>>

\* decodeTx(bytes) on the bytes encodeTx returned.
DecodeTx ==
    /\ ~IsNull(wire)
    /\ decoded = NoResult
    /\ decoded' = Returned("tx", decodeTx(wire[1].bytes))
    /\ last' = "decodeTx"
    /\ UNCHANGED <<builder, calls, result, wire, held>>

Next ==
    \/ \E now \in Timestamps : Create(now)
    \/ \E input \in TxInputs, now \in Timestamps : From(input, now)
    \/ SetVersion(V1)
    \/ \E timestamp \in Timestamps : SetTimestamp(timestamp)
    \/ \E type \in {TRANSFER, BIP_CREATE, BIP_VOTE} : SetType(type)
    \/ \E network \in {MAINNET, TESTNET} : SetNetwork(network)
    \/ \E nonce \in Nonces : SetNonce(nonce)
    \/ \E recipient \in {Addr1} : SetRecipient(recipient)
    \/ \E tokenAddress \in {Null, Some(NATIVE_TOKEN)} : SetTokenAddress(tokenAddress)
    \/ \E amount \in Amounts : SetAmount(amount)
    \/ \E fee \in Fees : SetFee(fee)
    \/ \E message \in Messages : SetMessage(message)
    \/ \E message \in MessageStrings : SetMessageString(message)
    \/ \E message \in MessageHexes : SetMessageHex(message)
    \/ \E payload \in Payloads : SetPayload(payload)
    \/ SetReferenceHash(Hash1)
    \/ BuildUnsigned
    \/ \E privateKey \in PrivateKeys : Sign(privateKey)
    \/ ComputeSigningHash
    \/ EstimateSize
    \/ \E includeSignature \in BOOLEAN : EncodeTx(includeSignature)
    \/ DecodeTx

Spec == Init /\ [][Next]_vars

\* ------------------------------------------------------------------------
\* The builder with its defaults: TxBuilder.create() followed by the setters
\* type, network, nonce and recipient only, in any order and any number up
\* to MaxSetterCalls, and then buildUnsigned or sign.
\* ------------------------------------------------------------------------
MaxSetterCalls == 4

Defaults_type(type) ==
    ConfigureWithin(MaxSetterCalls, "type", [builder EXCEPT !.type = Some(type)])

Defaults_network(network) ==
    ConfigureWithin(MaxSetterCalls, "network", [builder EXCEPT !.network = Some(network)])

Defaults_nonce(nonce) ==
    ConfigureWithin(MaxSetterCalls, "nonce", [builder EXCEPT !.nonce = Some(nonce)])

Defaults_recipient(recipient) ==
    ConfigureWithin(MaxSetterCalls, "recipient",
                    [builder EXCEPT !.recipient = Some(recipient)])

DefaultsNext ==
    \/ \E type \in {TRANSFER, BIP_CREATE, BIP_VOTE} : Defaults_type(type)
    \/ \E network \in {MAINNET, TESTNET} : Defaults_network(network)
    \/ \E nonce \in Nonces : Defaults_nonce(nonce)
    \/ \E recipient \in {Addr1, Addr2} : Defaults_recipient(recipient)
    \/ BuildUnsigned
    \/ \E privateKey \in PrivateKeys : Sign(privateKey)

DefaultsSpec == Init /\ [][DefaultsNext]_vars

\* ------------------------------------------------------------------------
\* The builder given literals that are no Address or Hash: TxBuilder.from
\* followed by a setter called with such a literal, then buildUnsigned, sign
\* and encodeTx.
\* ------------------------------------------------------------------------
\* Literals of 19 bytes, of an odd number of characters, of 21 bytes, and of
\* 20 bytes with a character that is no hex digit.
BadAddresses ==
    {SubSeq(Addr1, 1, 38), SubSeq(Addr1, 1, 39), Addr1 \o <<1, 2>>,
     [Addr1 EXCEPT ![3] = NonHexDigit]}

BadHashes == {SubSeq(Hash1, 1, 62), Hash1 \o <<1>>, [Hash1 EXCEPT ![1] = NonHexDigit]}

BadHexes == {<<1, 2, 3>>, <<NonHexDigit, 1>>, <<1, NonHexDigit, 2, 3>>}

LiteralsNext ==
    \/ \E input \in {i \in TxInputs : i.type \in {TRANSFER, BIP_VOTE}}, now \in Timestamps :
           From(input, now)
    \/ \E recipient \in BadAddresses : SetRecipient(recipient)
    \/ \E tokenAddress \in BadAddresses : SetTokenAddress(Some(tokenAddress))
    \/ \E h \in BadHashes : SetReferenceHash(h)
    \/ \E message \in BadHexes : SetMessageHex(message)
    \/ BuildUnsigned
    \/ \E privateKey \in PrivateKeys : Sign(privateKey)
    \/ EncodeTx(TRUE)

LiteralsSpec == Init /\ [][LiteralsNext]_vars

\* ------------------------------------------------------------------------
\* Properties
\* ------------------------------------------------------------------------
\* The serialized fields of a transaction, in wire order.
SerializedFields(t) ==
    <<t.version, t.timestamp, t.type, t.network, t.nonce, t.recipient, t.tokenAddress,
      t.amount, t.fee, t.message, t.payload, t.referenceHash, t.signature>>

\* decodeTx has been applied to encodeTx(t, true) of the transaction t signed.
DecodedSigned == decoded.kind # "none" /\ wire[1].includeSignature

\* C1 (round trip): once decodeTx has run on encodeTx(t, true) of a
\* transaction t returned by sign, it returned a transaction equal to t in
\* every serialized field and in sender, hash and size.
C1_RoundTrip ==
    DecodedSigned =>
        /\ decoded.kind = "tx"
        /\ SerializedFields(decoded.v) = SerializedFields(result.v)
        /\ decoded.v.sender = result.v.sender
        /\ decoded.v.hash = result.v.hash
        /\ decoded.v.size = result.v.size

\* C2 (recovery): for a transaction t signed with the key pk, the address
\* recovered from hashForSigning(t) and t.signature is pk's address and is
\* t.sender, and it is the sender of decodeTx(encodeTx(t, true)).
C2_Recovery ==
    /\ result.kind = "tx" =>
           /\ recoverAddress(hashForSigning(result.v), result.v.signature[1])
                  = Ok(getAddress(result.key))
           /\ result.v.sender = getAddress(result.key)
    /\ DecodedSigned => (decoded.kind = "tx" /\ decoded.v.sender = result.v.sender)

\* C3 (signing-hash stability): the signing hash of a signed transaction is
\* the signing hash of the unsigned transaction it was built from, and of
\* every transaction that differs from it in the signature and the derived
\* sender, hash and size only.
C3_SigningHashStable ==
    result.kind = "tx" =>
        /\ hashForSigning(result.v) = hashForSigning(buildUnsigned(builder).v)
        /\ \A signature \in {Null, Some(Repeat(0, 2 * SIGNATURE_SIZE))} :
               hashForSigning([result.v EXCEPT !.signature = signature,
                                               !.sender = NATIVE_TOKEN,
                                               !.hash = Null, !.size = 0])
                   = hashForSigning(result.v)

\* A signed transaction has been returned, with a signature in it.
C3_Witness ==
    /\ last = "sign"
    /\ result.kind = "tx"
    /\ Truthy(result.v.signature)
    /\ encodeTx(result.v, TRUE) # encodeTx(result.v, FALSE)

\* C4 (size agreement): the size stored in a transaction returned by sign or
\* by decodeTx is the byte length of its encoding with the signature.
C4_SizeAgreement ==
    /\ result.kind = "tx" => result.v.size = sizeTx(result.v)
    /\ decoded.kind = "tx" => decoded.v.size = sizeTx(decoded.v)

\* The bits2int_modN value of the signing hash of the transaction returned.
SignedZ == ModOfBytes(hexToBytes(hashForSigning(result.v)))

\* C5 (signature determinism): whatever nonce the signing primitive may draw
\* for the key and the signing hash of the transaction returned, PrivateKey.sign
\* returns the signature already returned and sign, called again on the same
\* builder with the same key, returns the same transaction.
C5_Deterministic ==
    result.kind = "tx" =>
        \A k \in secp256k1_nonces(SignedZ, result.key) :
            /\ PrivateKey_sign(result.key, hashForSigning(result.v), k)
                   = result.v.signature[1]
            /\ sign(builder, result.key, k).v = result.v

\* A transaction has been signed and several nonces would give a signature.
C5_Witness ==
    /\ result.kind = "tx"
    /\ last = "sign"
    /\ Cardinality(ValidNonces(SignedZ, result.key)) > 1
    /\ secp256k1_nonces(SignedZ, result.key) # {}

\* r, s and v of a 65-byte signature.
SigR(signature) == BigIntOfHex(SubSeq(signature, 1, 64))

SigS(signature) == BigIntOfHex(SubSeq(signature, 65, 128))

SigV(signature) == hexToBytes(signature)[SIGNATURE_SIZE]

\* C6 (low-S output): the signature of a transaction returned by sign is 65
\* bytes r, s, v with 0 < r < n, 0 < s <= n/2 and v in {27, 28}, and
\* isSignatureStructurallyValid accepts it.
C6_LowS ==
    result.kind = "tx" =>
        LET signature == result.v.signature[1]
        IN  /\ Len(hexToBytes(signature)) = SIGNATURE_SIZE
            /\ 0 < SigR(signature) /\ SigR(signature) < CURVE_N
            /\ 0 < SigS(signature) /\ 2 * SigS(signature) <= CURVE_N
            /\ SigV(signature) \in {27, 28}
            /\ isSignatureStructurallyValid(signature)

\* A signature was returned whose s, before normalisation, was above n/2.
C6_Witness ==
    /\ result.kind = "tx"
    /\ \E k \in secp256k1_nonces(SignedZ, result.key) :
           secp256k1_k2sig(k, SignedZ, result.key, FALSE)[1].s > HALF_CURVE_ORDER
    /\ SigV(result.v.signature[1]) = 28

\* The build methods that return a transaction.
BuildMethods == {"buildUnsigned", "sign"}

\* A build method threw a TxBuilderError: nothing was built or signed.
Rejected == result.kind = "error" /\ result.name = "TxBuilderError"

\* C7 (TRANSFER rejected): buildUnsigned and sign, called on a builder of
\* type TRANSFER, throw a builder error when the recipient is unset or a
\* payload or a referenceHash is set.
C7_TransferRejected ==
    (last \in BuildMethods /\ builder.type = Some(TRANSFER)) =>
        ((IsNull(builder.recipient) \/ ~IsNull(builder.payload)
              \/ ~IsNull(builder.referenceHash)) => Rejected)

\* C8 (BIP_CREATE rejected): buildUnsigned and sign, called on a builder of
\* type BIP_CREATE, throw a builder error when the payload is unset or the
\* amount, the recipient or the referenceHash is set.
C8_BipCreateRejected ==
    (last \in BuildMethods /\ builder.type = Some(BIP_CREATE)) =>
        ((IsNull(builder.payload) \/ ~IsNull(builder.amount)
              \/ ~IsNull(builder.recipient) \/ ~IsNull(builder.referenceHash)) => Rejected)

\* C9 (BIP_VOTE rejected): buildUnsigned and sign, called on a builder of
\* type BIP_VOTE, throw a builder error when the payload is unset or is not a
\* vote payload, the referenceHash is unset, or the amount is set.
C9_BipVoteRejected ==
    (last \in BuildMethods /\ builder.type = Some(BIP_VOTE)) =>
        ((\/ IsNull(builder.payload)
          \/ (~IsNull(builder.payload) /\ builder.payload[1].payloadType # PAYLOAD_BIP_VOTE)
          \/ IsNull(builder.referenceHash)
          \/ ~IsNull(builder.amount)) => Rejected)

\* The four methods that validate the builder.
ValidatingMethods == {"buildUnsigned", "sign", "computeSigningHash", "estimateSize"}

\* The last call threw the TxBuilderError with this message.
RejectedWith(message) == Rejected /\ result.err = message

\* C10 (required fields): each validating method, called on a builder whose
\* type, network or nonce was never set, throws a TxBuilderError: for the
\* type if it is missing, else for the network if it is missing, else for the
\* nonce, whatever else is missing or set.
C10_RequiredFields ==
    last \in ValidatingMethods =>
        /\ IsNull(builder.type) => RejectedWith("Transaction type is required")
        /\ (~IsNull(builder.type) /\ IsNull(builder.network))
               => RejectedWith("Network is required")
        /\ (~IsNull(builder.type) /\ ~IsNull(builder.network) /\ IsNull(builder.nonce))
               => RejectedWith("Nonce is required")

\* estimateSize threw for the missing nonce on a TRANSFER builder that also
\* lacks its recipient.
C10_Witness ==
    /\ last = "estimateSize"
    /\ builder.type = Some(TRANSFER)
    /\ ~IsNull(builder.network)
    /\ IsNull(builder.nonce)
    /\ IsNull(builder.recipient)
    /\ RejectedWith("Nonce is required")

\* The transaction the last build method returned, if it returned one.
Built == IF result.kind \in {"unsigned", "tx"} THEN Some(result.v) ELSE Null

\* C11 (builder defaults): under DefaultsSpec, where only type, network,
\* nonce and recipient are ever set after create(), a built TRANSFER has
\* version V1, fee 0, tokenAddress NATIVE_TOKEN, and no amount, message,
\* payload or referenceHash.
C11_BuilderDefaults ==
    (~IsNull(Built) /\ Built[1].type = TRANSFER) =>
        /\ Built[1].version = V1
        /\ Built[1].fee = 0
        /\ Built[1].tokenAddress = Some(NATIVE_TOKEN)
        /\ IsNull(Built[1].amount)
        /\ IsNull(Built[1].message)
        /\ IsNull(Built[1].payload)
        /\ IsNull(Built[1].referenceHash)

\* The items of an encoding that is one RLP list and nothing more, each as
\* the bytes it occupies; no items if the encoding is anything else.
ListParts(bytes, h) ==
    IF h.ok /\ h.v.list /\ h.v.to = Len(bytes)
    THEN rlp_split(SubSeq(bytes, h.v.from, h.v.to))
    ELSE <<>>

WireItems(bytes) == IF Len(bytes) = 0 THEN <<>> ELSE ListParts(bytes, rlp_header(bytes))

\* The wire forms of the layout: a bare string, a bare scalar, the list
\* around one item, and an optional item.
BareString(bytes) == RLPWriter_encodeString(bytes)

BareScalar(value) == BareString(encodeScalar(value))

ListAround(itemBytes) == encodeListHeader(Len(itemBytes)) \o itemBytes

AbsentItem == <<192>>

OptionalScalar(o) == IF IsNull(o) THEN AbsentItem ELSE ListAround(BareScalar(o[1]))

OptionalString(o) == IF IsNull(o) THEN AbsentItem ELSE ListAround(BareString(o[1]))

OptionalHex(o) == IF IsNull(o) THEN AbsentItem ELSE ListAround(BareString(hexToBytes(o[1])))

OptionalPayload(o, version) ==
    IF IsNull(o) THEN AbsentItem ELSE ListAround(encodePayload(o, version))

\* The signature item: there if and only if it is asked for and carried.
SignatureItem(t, includeSignature) ==
    IF includeSignature /\ ~IsNull(t.signature)
    THEN <<BareString(hexToBytes(t.signature[1]))>>
    ELSE <<>>

\* The V1 layout of a transaction, item by item.
TxLayoutV1(t, includeSignature) ==
    <<BareScalar(t.version), BareScalar(t.timestamp), BareScalar(t.type),
      BareScalar(t.network), OptionalScalar(t.nonce), OptionalHex(t.recipient),
      OptionalHex(t.tokenAddress), OptionalScalar(t.amount), BareScalar(t.fee),
      OptionalString(t.message), OptionalPayload(t.payload, t.version),
      OptionalHex(t.referenceHash)>>
    \o SignatureItem(t, includeSignature)

\* C12 (V1 layout): for every transaction a build method returned and for
\* both values of includeSignature, encodeTx yields one RLP list whose items
\* are version, timestamp, type, network, optional nonce, recipient,
\* tokenAddress and amount, the bare fee, optional message, payload and
\* referenceHash, and then the bare 65-byte signature if and only if it is
\* asked for and carried; an optional item is the list around its value or
\* the byte 0xc0.  The bytes the encodeTx call returned have that layout too.
C12_TxLayout ==
    /\ ~IsNull(Built) =>
           \A includeSignature \in BOOLEAN :
               /\ WireItems(encodeTx(Built[1], includeSignature))
                      = TxLayoutV1(Built[1], includeSignature)
               /\ \A i \in 1..Len(SignatureItem(Built[1], includeSignature)) :
                      Len(SignatureItem(Built[1], includeSignature)[i]) = SIGNATURE_SIZE + 2
    /\ ~IsNull(wire) =>
           WireItems(wire[1].bytes) = TxLayoutV1(result.v, wire[1].includeSignature)

\* encodeTx returned the thirteen items of a signed transaction with a
\* payload and a message and without an amount.
C12_Witness ==
    /\ ~IsNull(wire)
    /\ wire[1].includeSignature
    /\ Len(WireItems(wire[1].bytes)) = 13
    /\ ~IsNull(result.v.payload)
    /\ ~IsNull(result.v.message)
    /\ IsNull(result.v.amount)
    /\ WireItems(wire[1].bytes)[8] = AbsentItem

OptionalUtf8(o) ==
    IF IsNull(o) THEN AbsentItem ELSE ListAround(BareString(encodeString(o[1])))

BareUtf8(str) == BareString(encodeString(str))

BareHex(hex) == BareString(hexToBytes(hex))

\* The fields of each payload variant in the order of the data-model table.
PayloadLayout(p) ==
    CASE p.payloadType = BIP_ADDRESS_ALIAS_ADD -> <<BareUtf8(p.alias), BareHex(p.address)>>
      [] p.payloadType = BIP_ADDRESS_ALIAS_REMOVE -> <<BareUtf8(p.alias)>>
      [] p.payloadType = BIP_AUTHORITY_ADD -> <<BareHex(p.authorityAddress)>>
      [] p.payloadType = BIP_AUTHORITY_REMOVE -> <<BareHex(p.authorityAddress)>>
      [] p.payloadType = BIP_NETWORK_PARAMS_SET ->
            <<OptionalScalar(p.blockReward), OptionalHex(p.blockRewardPoolAddress),
              OptionalScalar(p.targetMiningTimeMs), OptionalScalar(p.asertHalfLifeBlocks),
              OptionalScalar(p.minDifficulty), OptionalScalar(p.minTxBaseFee),
              OptionalScalar(p.minTxByteFee)>>
      [] p.payloadType = BIP_TOKEN_BURN ->
            <<BareHex(p.tokenAddress), BareHex(p.sender), BareScalar(p.amount)>>
      [] p.payloadType = BIP_TOKEN_CREATE ->
            <<BareUtf8(p.name), BareUtf8(p.smallestUnitName), BareScalar(p.numberOfDecimals),
              OptionalUtf8(p.websiteUrl), OptionalUtf8(p.logoUrl),
              OptionalScalar(p.maxSupply), BareScalar(IF p.userBurnable THEN 1 ELSE 0)>>
      [] p.payloadType = BIP_TOKEN_MINT ->
            <<BareHex(p.tokenAddress), BareHex(p.recipient), BareScalar(p.amount)>>
      [] p.payloadType = BIP_TOKEN_UPDATE ->
            <<BareHex(p.tokenAddress), OptionalUtf8(p.name),
              OptionalUtf8(p.smallestUnitName), OptionalUtf8(p.websiteUrl),
              OptionalUtf8(p.logoUrl)>>
      [] p.payloadType = PAYLOAD_BIP_VOTE -> <<BareScalar(p.voteType)>>

\* An optional string or number read back from its position: the value
\* written, or another of the forms of no value (null, '', 0).
StringReadAs(o, d) == d = o \/ ({o, d} \subseteq {Null, Some(<<>>)})

NumberReadAs(o, d) == d = o \/ (IsNull(o) /\ d = Some(0))

\* Every field of the payload decoded carries what the same field of p
\* carried.
FieldsReadAs(p, d) ==
    /\ d.payloadType = p.payloadType
    /\ CASE p.payloadType = BIP_TOKEN_CREATE ->
               /\ d.name = p.name
               /\ d.smallestUnitName = p.smallestUnitName
               /\ d.numberOfDecimals = p.numberOfDecimals
               /\ StringReadAs(p.websiteUrl, d.websiteUrl)
               /\ StringReadAs(p.logoUrl, d.logoUrl)
               /\ NumberReadAs(p.maxSupply, d.maxSupply)
               /\ d.userBurnable = p.userBurnable
         [] p.payloadType = BIP_TOKEN_UPDATE ->
               /\ d.tokenAddress = p.tokenAddress
               /\ StringReadAs(p.name, d.name)
               /\ StringReadAs(p.smallestUnitName, d.smallestUnitName)
               /\ StringReadAs(p.websiteUrl, d.websiteUrl)
               /\ StringReadAs(p.logoUrl, d.logoUrl)
         [] OTHER -> d = p

PayloadReadBack(p, r) == r.ok /\ ~IsNull(r.v) /\ FieldsReadAs(p, r.v[1])

\* C13 (payload layout): for every payload the builder carries,
\* encodePayload yields one RLP list whose first item is the payload-type
\* code as a scalar and whose further items are the variant's fields in the
\* order of the data-model table (alias before address for
\* ADDRESS_ALIAS_ADD), and decodePayload reads every field back from its
\* position.
C13_PayloadLayout ==
    ~IsNull(builder.payload) =>
        /\ WireItems(encodePayload(builder.payload, V1))
               = <<BareScalar(builder.payload[1].payloadType)>>
                  \o PayloadLayout(builder.payload[1])
        /\ PayloadReadBack(builder.payload[1],
                           decodePayload(BytesItem(encodePayload(builder.payload, V1)), V1))

\* sign encoded an ADDRESS_ALIAS_ADD payload, and decodeTx read its alias
\* and its address back.
C13_Witness ==
    /\ ~IsNull(builder.payload)
    /\ builder.payload[1].payloadType = BIP_ADDRESS_ALIAS_ADD
    /\ result.kind = "tx"
    /\ decoded.kind = "tx"
    /\ ~IsNull(decoded.v.payload)
    /\ decoded.v.payload[1].alias = builder.payload[1].alias
    /\ decoded.v.payload[1].address = builder.payload[1].address

\* ------------------------------------------------------------------------
\* decodeTx on bytes that no encodeTx call returned: the encoding of a signed
\* transaction in which one item of the outer list is replaced by another
\* well-formed RLP item (and, to see what is checked first, the version item
\* and one more).
\* ------------------------------------------------------------------------
\* The encoding with the item at `position` replaced.
replaceItem(bytes, position, item) ==
    ListAround(Concat([WireItems(bytes) EXCEPT ![position] = item]))

\* Short items: the absent marker, the empty string, the wrapped zero, bare
\* codes, wrapped codes, and a list of two elements.
ShortItems ==
    {AbsentItem, <<128>>, <<193, 128>>, <<1>>, <<2>>, <<3>>, <<10>>, <<193, 1>>,
     <<193, 3>>, <<194, 1, 2>>}

\* Long strings: a wrapped string of 19 bytes, a bare and a wrapped address,
\* and 64 bytes.
LongItems ==
    {ListAround(BareString(Repeat(17, 19))), BareHex(Addr1), OptionalHex(Some(Addr1)),
     BareString(Repeat(17, 64))}

\* Wrapped payload lists: an unknown payload type, a vote with the code 7,
\* and an approval vote.
NestedItems ==
    {ListAround(ListAround(<<10>>)), ListAround(ListAround(<<9, 7>>)),
     ListAround(ListAround(<<9, 1>>))}

\* The items tried at a position.  A long string stands only where it is
\* not read as a number (the model's integers are machine integers; the
\* first element of a payload list is read as one), and a
\* list inside the item stands anywhere but at the message, the one place
\* where it would be handed on as a message.
ItemsFor(position) ==
    ShortItems
        \cup (IF position \in {6, 7, 10, 12, 13} THEN LongItems ELSE {})
        \cup (IF position # 10 THEN NestedItems ELSE {})

SignatureFaults == {"v29", "v26", "r0", "rN", "s0", "sN", "highS"}

\* 65 bytes r, s, v that differ from the signature in one respect.
faultySignature(fault, sig) ==
    CASE fault = "v29" -> [sig EXCEPT ![65] = 29]
      [] fault = "v26" -> [sig EXCEPT ![65] = 26]
      [] fault = "r0" -> [sig EXCEPT ![32] = 0]
      [] fault = "rN" -> [sig EXCEPT ![32] = CURVE_N]
      [] fault = "s0" -> [sig EXCEPT ![64] = 0]
      [] fault = "sN" -> [sig EXCEPT ![64] = CURVE_N]
      [] fault = "highS" -> [sig EXCEPT ![64] = CURVE_N - sig[64], ![65] = 55 - sig[65]]

\* The bytes handed to decodeTx next are crafted from what encodeTx(t, true)
\* returned.
Craft(name, bytes) ==
    /\ ~IsNull(wire)
    /\ last = "encodeTx"
    /\ wire[1].includeSignature
    /\ wire' = Some([wire[1] EXCEPT !.bytes = bytes])
    /\ last' = name
    /\ decoded' = NoResult
    /\ UNCHANGED <<builder, calls, result, held>>

Replace(position, item) == Craft("replace", replaceItem(wire[1].bytes, position, item))

ReplaceVersionAnd(position, item) ==
    Craft("replaceVersionAnd", replaceItem(replaceItem(wire[1].bytes, 1, <<2>>), position, item))

ReplaceSignature(fault) ==
    Craft("replaceSignature",
          replaceItem(wire[1].bytes, 13,
                      BareString(faultySignature(fault, hexToBytes(result.v.signature[1])))))

\* The transfers and the votes among the inputs.
WireInputs == {input \in TxInputs : input.type \in {TRANSFER, BIP_VOTE}}

\* TxBuilder.from(input), once, within the millisecond of create().
From_once(input) == ConfigureWithin(1, "from", from(input, builder.timestamp))

WireNext ==
    \/ \E input \in WireInputs : From_once(input)
    \/ \E privateKey \in PrivateKeys : Sign(privateKey)
    \/ EncodeTx(TRUE)
    \/ \E position \in 1..13 : \E item \in ItemsFor(position) : Replace(position, item)
    \/ \E position \in {3, 4, 11, 13} : \E item \in ItemsFor(position) :
           ReplaceVersionAnd(position, item)
    \/ \E fault \in SignatureFaults : ReplaceSignature(fault)
    \/ DecodeTx

WireSpec == Init /\ [][WireNext]_vars

\* The item at a position of the bytes handed to decodeTx.
WireItem(position) == WireItems(wire[1].bytes)[position]

ZeroItem == <<193, 128>>

\* decodeTx read the optional scalar `field` from the item at `position` as
\* what the item says, and encodeTx writes the item again for it.
ScalarKept(position, field) ==
    /\ WireItem(position) = AbsentItem => IsNull(field)
    /\ WireItem(position) = ZeroItem => field = Some(0)
    /\ WireItem(position) \in {AbsentItem, ZeroItem} =>
           WireItems(encodeTx(decoded.v, TRUE))[position] = WireItem(position)

\* C14 (absent is not zero): under WireSpec, a signed transaction encodes
\* an absent nonce or amount as 0xc0 and a zero one as 0xc1 0x80, and a
\* transaction decodeTx returned has the nonce and the amount absent where
\* the item is 0xc0 and zero where it is 0xc1 0x80, and encodes that item
\* again.
C14_AbsentNotZero ==
    /\ (result.kind = "tx" /\ last = "encodeTx") =>
           /\ WireItem(5) = OptionalScalar(result.v.nonce)
           /\ WireItem(8) = OptionalScalar(result.v.amount)
    /\ decoded.kind = "tx" =>
           /\ ScalarKept(5, decoded.v.nonce)
           /\ ScalarKept(8, decoded.v.amount)

\* An item that is a bare byte string, and the number it carries.
IsBareString(item) == rlp_header(item).ok /\ ~rlp_header(item).v.list

CodeOf(item) == decodeScalar(rlp_decode(item).data.data)

IsCodeOutside(item, codes) == IsBareString(item) /\ CodeOf(item) \notin codes

\* The payload item wraps a list whose first element is a bare code outside
\* `codes`.
IsPayloadTypeOutside(payloadItem, codes) ==
    /\ payloadItem.type = "list"
    /\ Len(payloadItem.data) = 1
    /\ payloadItem.data[1].type = "list"
    /\ Len(payloadItem.data[1].data) >= 1
    /\ payloadItem.data[1].data[1].type = "bytes"
    /\ decodeScalar(payloadItem.data[1].data[1].data) \notin codes

\* decodeTx threw.
DecodeFailed == decoded.kind = "error"

\* C15 (unknown codes): under WireSpec, decodeTx fails with the
\* unknown-version error whenever the version item is a code other than 1,
\* whatever the other items are; and on a version-1 input it fails and
\* returns no transaction when the type code is outside {0, 1, 2}, the
\* network code is outside {0, 1}, or the payload-type code is outside 0..9.
C15_UnknownCodes ==
    decoded.kind # "none" =>
        /\ IsCodeOutside(WireItem(1), {V1}) =>
               (DecodeFailed /\ decoded.err = "Unknown TxVersion code")
        /\ WireItem(1) = BareScalar(V1) =>
               /\ IsCodeOutside(WireItem(3), {TRANSFER, BIP_CREATE, BIP_VOTE}) => DecodeFailed
               /\ IsCodeOutside(WireItem(4), {MAINNET, TESTNET}) => DecodeFailed
               /\ IsPayloadTypeOutside(rlp_decode(WireItem(11)).data, 0..9) => DecodeFailed

\* decodeTx threw the unknown-version error on an input whose version and
\* type codes are both unknown.
C15_Witness ==
    /\ last = "decodeTx"
    /\ IsCodeOutside(WireItem(1), {V1})
    /\ IsCodeOutside(WireItem(3), {TRANSFER, BIP_CREATE, BIP_VOTE})
    /\ DecodeFailed
    /\ decoded.err = "Unknown TxVersion code"

\* The payload item wraps a vote (payload type 9) whose vote code is a bare
\* code outside `codes`.
IsVoteCodeOutside(payloadItem, codes) ==
    /\ ~IsPayloadTypeOutside(payloadItem, {PAYLOAD_BIP_VOTE})
    /\ payloadItem.type = "list"
    /\ Len(payloadItem.data) = 1
    /\ payloadItem.data[1].type = "list"
    /\ Len(payloadItem.data[1].data) = 2
    /\ payloadItem.data[1].data[1].type = "bytes"
    /\ payloadItem.data[1].data[2].type = "bytes"
    /\ decodeScalar(payloadItem.data[1].data[2].data) \notin codes

\* C16 (unknown vote codes): under WireSpec, decodePayload and decodeTx
\* fail on a payload item that wraps a vote whose vote code is neither 0 nor
\* 1, and no transaction decodeTx returned carries a vote payload with
\* another voteType than DISAPPROVAL or APPROVAL.
C16_UnknownVoteCodes ==
    /\ (decoded.kind # "none"
           /\ IsVoteCodeOutside(rlp_decode(WireItem(11)).data, {DISAPPROVAL, APPROVAL})) =>
           /\ DecodeFailed
           /\ ~decodePayload(rlp_decode(WireItem(11)).data, V1).ok
    /\ (decoded.kind = "tx" /\ ~IsNull(decoded.v.payload)
           /\ decoded.v.payload[1].payloadType = PAYLOAD_BIP_VOTE) =>
           decoded.v.payload[1].voteType \in {DISAPPROVAL, APPROVAL}

\* The item is a present optional value: a list around one byte string.
IsWrappedString(item) ==
    /\ item.type = "list"
    /\ Len(item.data) = 1
    /\ item.data[1].type = "bytes"

\* A present value at `position` whose length is not `size`.
IsPresentOfOtherLength(position, size) ==
    /\ IsWrappedString(rlp_decode(WireItem(position)).data)
    /\ Len(rlp_decode(WireItem(position)).data.data[1].data) # size

\* C17 (fixed widths): under WireSpec, decodeTx fails whenever the
\* recipient or the tokenAddress item is a present value of another length
\* than 20, the referenceHash item a present value of another length than 32
\* (a present value of length 0 included), or the signature item a byte
\* string of another length than 65.
C17_FixedWidth ==
    decoded.kind # "none" =>
        /\ IsPresentOfOtherLength(6, ADDRESS_SIZE) => DecodeFailed
        /\ IsPresentOfOtherLength(7, ADDRESS_SIZE) => DecodeFailed
        /\ IsPresentOfOtherLength(12, HASH_SIZE) => DecodeFailed
        /\ (IsBareString(WireItem(13))
               /\ Len(rlp_decode(WireItem(13)).data.data) # SIGNATURE_SIZE) => DecodeFailed

\* The items that must be byte strings, and the optional (wrapped) ones.
StringPositions == {1, 2, 3, 4, 9, 13}

OptionalPositions == {5, 6, 7, 8, 10, 12}

IsList(item) == rlp_header(item).ok /\ rlp_header(item).v.list

IsLongerList(item) == IsList(item) /\ Len(rlp_decode(item).data.data) > 1

\* C18 (list or string): under WireSpec, decodeTx fails when the item of
\* version, timestamp, type, network, fee or signature is an RLP list, and
\* when the item of nonce, recipient, tokenAddress, amount, message or
\* referenceHash is a bare byte string or a list of more than one element.
C18_ListStringMismatch ==
    decoded.kind # "none" =>
        /\ \A position \in StringPositions : IsList(WireItem(position)) => DecodeFailed
        /\ \A position \in OptionalPositions :
               /\ IsBareString(WireItem(position)) => DecodeFailed
               /\ IsLongerList(WireItem(position)) => DecodeFailed

\* The signature item is a byte string of 65 bytes; the Signature it carries.
HasWireSignature ==
    /\ IsBareString(WireItem(13))
    /\ Len(rlp_decode(WireItem(13)).data.data) = SIGNATURE_SIZE

WireSignature == bytesToHex(rlp_decode(WireItem(13)).data.data)

\* v in {27, 28}, 0 < r < n and 0 < s <= n/2.
InContract(signature) ==
    /\ SigV(signature) \in {27, 28}
    /\ 0 < SigR(signature) /\ SigR(signature) < CURVE_N
    /\ 0 < SigS(signature) /\ 2 * SigS(signature) <= CURVE_N

\* C19 (signature checks on recovery): under WireSpec, for a 65-byte
\* signature item with v outside {27, 28}, r or s outside 1..n-1, or
\* s > n/2, decodeTx fails, recoverAddress fails on the signing hash of the
\* transaction signed, and validateSignature returns false for its sender.
C19_RecoverValidates ==
    (decoded.kind # "none" /\ result.kind = "tx" /\ HasWireSignature
         /\ ~InContract(WireSignature)) =>
        /\ DecodeFailed
        /\ ~recoverAddress(hashForSigning(result.v), WireSignature).ok
        /\ ~validateSignature(hashForSigning(result.v), WireSignature, result.v.sender)

\* ------------------------------------------------------------------------
\* The codecs as pure functions: RLPWriter.encode on element trees and
\* encodeScalar / decodeScalar on integers, each applied to every input of a
\* bounded set.  result holds the input, wire the bytes written and decoded
\* what was read back.
\* ------------------------------------------------------------------------
MaxElements == 2

\* Byte strings of every length class: empty, one byte below and from 0x80,
\* short, 55 and 56 bytes, and 300 bytes (two length bytes).
ElementData ==
    {<<>>, <<0>>, <<127>>, <<128>>, <<1, 2>>, Repeat(17, 55), Repeat(17, 56),
     Repeat(17, 300)}

ElementLeaves == {writeBytes(data) : data \in ElementData} \cup {writeEmptyList}

SeqsUpTo(S, n) == UNION {[1..k -> S] : k \in 0..n}

ElementLists ==
    {addList(sublist) : sublist \in SeqsUpTo(ElementLeaves, MaxElements)}
        \cup {addList(<<addList(<<leaf>>)>>) : leaf \in ElementLeaves}

\* Writers holding nothing, one element, or a list followed by a leaf.
ElementTrees ==
    {<<>>} \cup {<<element>> : element \in ElementLeaves \cup ElementLists}
           \cup {<<list, leaf>> : list \in ElementLists, leaf \in ElementLeaves}

Scalars == 0..300 \cup {65535, 65536, 70000, 16777215, 16777216, 2147483647}

\* Optional values: absent, present and zero (or empty), present and not.
OptionalAmounts == {Null, Some(0), Some(7)}

OptionalAddresses == {Null, Some(NATIVE_TOKEN), Some(Addr1)}

OptionalStrings == {Null, Some(<<>>), Some(<<119>>)}

NoNetworkParams ==
    [payloadType |-> BIP_NETWORK_PARAMS_SET, blockReward |-> Null,
     blockRewardPoolAddress |-> Null, targetMiningTimeMs |-> Null,
     asertHalfLifeBlocks |-> Null, minDifficulty |-> Null, minTxBaseFee |-> Null,
     minTxByteFee |-> Null]

NetworkParamsPayloads ==
    {[NoNetworkParams EXCEPT !.blockReward = blockReward,
                             !.blockRewardPoolAddress = blockRewardPoolAddress,
                             !.targetMiningTimeMs = targetMiningTimeMs,
                             !.asertHalfLifeBlocks = asertHalfLifeBlocks,
                             !.minDifficulty = minDifficulty,
                             !.minTxBaseFee = minTxBaseFee,
                             !.minTxByteFee = minTxByteFee] :
        blockReward \in OptionalAmounts, blockRewardPoolAddress \in OptionalAddresses,
        targetMiningTimeMs \in OptionalAmounts, asertHalfLifeBlocks \in OptionalAmounts,
        minDifficulty \in OptionalAmounts, minTxBaseFee \in OptionalAmounts,
        minTxByteFee \in OptionalAmounts}

TokenCreateBase ==
    [payloadType |-> BIP_TOKEN_CREATE, name |-> <<84>>, smallestUnitName |-> <<116>>,
     numberOfDecimals |-> 8, websiteUrl |-> Null, logoUrl |-> Null, maxSupply |-> Null,
     userBurnable |-> TRUE]

TokenCreatePayloads ==
    {[TokenCreateBase EXCEPT !.websiteUrl = websiteUrl, !.logoUrl = logoUrl,
                             !.maxSupply = maxSupply] :
        websiteUrl \in OptionalStrings, logoUrl \in OptionalStrings,
        maxSupply \in OptionalAmounts}

TokenUpdateBase ==
    [payloadType |-> BIP_TOKEN_UPDATE, tokenAddress |-> Addr2, name |-> Null,
     smallestUnitName |-> Null, websiteUrl |-> Null, logoUrl |-> Null]

TokenUpdatePayloads ==
    {[TokenUpdateBase EXCEPT !.name = name, !.smallestUnitName = smallestUnitName,
                             !.websiteUrl = websiteUrl, !.logoUrl = logoUrl] :
        name \in OptionalStrings, smallestUnitName \in OptionalStrings,
        websiteUrl \in OptionalStrings, logoUrl \in OptionalStrings}

CodecPayloads == NetworkParamsPayloads \cup TokenCreatePayloads \cup TokenUpdatePayloads

\* new RLPWriter() with `elements` written to it, then encode().  The codecs
\* keep no state between calls: the model applies each to one input.
Encode(elements) ==
    /\ result = NoResult
    /\ result' = [kind |-> "elements", v |-> elements]
    /\ wire' = Some([includeSignature |-> FALSE, bytes |-> RLPWriter_encode(elements)])
    /\ decoded' = NoResult
    /\ last' = "encode"
    /\ UNCHANGED <<builder, calls, held>>

\* encodeScalar(value), decodeScalar on its bytes, and
\* new RLPWriter().writeScalar(value).encode().
WriteScalar(value) ==
    /\ result = NoResult
    /\ result' = [kind |-> "scalar", v |-> value]
    /\ wire' = Some([includeSignature |-> FALSE,
                     bytes |-> RLPWriter_encode(<<writeScalar(value)>>)])
    /\ decoded' = [kind |-> "scalar", bytes |-> encodeScalar(value),
                   v |-> decodeScalar(encodeScalar(value))]
    /\ last' = "writeScalar"
    /\ UNCHANGED <<builder, calls, held>>

\* encodePayload(payload, V1), and decodePayload on the bytes it returned.
EncodePayload(payload) ==
    /\ result = NoResult
    /\ result' = [kind |-> "payload", v |-> payload]
    /\ wire' = Some([includeSignature |-> FALSE,
                     bytes |-> encodePayload(Some(payload), V1)])
    /\ decoded' = Returned("payload",
                           decodePayload(BytesItem(encodePayload(Some(payload), V1)), V1))
    /\ last' = "encodePayload"
    /\ UNCHANGED <<builder, calls, held>>

CodecNext ==
    \/ \E elements \in ElementTrees : Encode(elements)
    \/ \E value \in Scalars : WriteScalar(value)
    \/ \E payload \in CodecPayloads : EncodePayload(payload)

CodecSpec == Init /\ [][CodecNext]_vars

RECURSIVE BigEndian(_)
\* The base-256 digits of n, most significant first; none for 0.
BigEndian(n) == IF n = 0 THEN <<>> ELSE Append(BigEndian(n \div 256), n % 256)

\* Standard RLP of a byte string and of a list with the payload given.
StandardString(bytes) ==
    CASE Len(bytes) = 1 /\ bytes[1] < 128 -> bytes
      [] Len(bytes) <= 55 /\ ~(Len(bytes) = 1 /\ bytes[1] < 128) ->
             <<128 + Len(bytes)>> \o bytes
      [] Len(bytes) > 55 ->
             <<183 + Len(BigEndian(Len(bytes)))>> \o BigEndian(Len(bytes)) \o bytes

StandardList(payload) ==
    IF Len(payload) <= 55 THEN <<192 + Len(payload)>> \o payload
    ELSE <<247 + Len(BigEndian(Len(payload)))>> \o BigEndian(Len(payload)) \o payload

RECURSIVE StandardRLP(_)
StandardRLP(element) ==
    CASE element.type = "bytes" -> StandardString(element.data)
      [] element.type = "raw" -> element.data
      [] element.type = "list" ->
             StandardList(Concat([i \in 1..Len(element.data) |->
                                      StandardRLP(element.data[i])]))

\* C21 (standard RLP): under CodecSpec, the bytes RLPWriter.encode returns
\* for an element tree are the standard RLP of the list of its elements:
\* strings by length class, lists with the short or the long header, raw
\* elements unchanged.
C21_StandardRLP ==
    result.kind = "elements" => wire[1].bytes = StandardRLP(addList(result.v))

\* A tree with a long list, a long string, a raw element and a single byte
\* below 0x80 has been encoded.
C21_Witness ==
    /\ result.kind = "elements"
    /\ result.v = <<addList(<<writeBytes(Repeat(17, 56)), writeEmptyList>>),
                    writeBytes(<<127>>)>>
    /\ wire[1].bytes[1] = 248
    /\ Len(wire[1].bytes) = 64

\* C22 (scalars): under CodecSpec, encodeScalar(v) is the minimal big-endian
\* byte sequence of v, empty for 0 and without a leading zero byte; written
\* to a writer, 0 is the item 0x80, 1..0x7f the byte itself and 0x80..0xff
\* the byte after 0x81; decodeScalar(encodeScalar(v)) is v.
C22_Scalar ==
    result.kind = "scalar" =>
        /\ decoded.bytes = BigEndian(result.v)
        /\ Len(decoded.bytes) > 0 => decoded.bytes[1] # 0
        /\ result.v = 0 => WireItems(wire[1].bytes) = <<(<<128>>)>>
        /\ result.v \in 1..127 => WireItems(wire[1].bytes) = <<(<<result.v>>)>>
        /\ result.v \in 128..255 => WireItems(wire[1].bytes) = <<(<<129, result.v>>)>>
        /\ decoded.v = result.v

\* A scalar of three bytes has been encoded and read back.
C22_Witness ==
    /\ result.kind = "scalar"
    /\ result.v = 70000
    /\ decoded.bytes = <<1, 17, 112>>
    /\ decoded.v = 70000

\* The payload encoded is of the type given.
EncodedPayloadOf(type) == result.kind = "payload" /\ result.v.payloadType = type

\* The item of an optional field: 0xc0 if and only if the field is absent,
\* and otherwise a list of one element.
IsOptionalItem(item, field) ==
    /\ item = AbsentItem <=> IsNull(field)
    /\ ~IsNull(field) => IsList(item) /\ Len(WireItems(item)) = 1

\* C23 (network parameters): under CodecSpec, for every NETWORK_PARAMS_SET
\* payload with each of its seven parameters absent, zero or not zero, every
\* absent parameter is written as the byte 0xc0 and every present one as a
\* list of one element, and decodePayload returns a payload equal to the
\* one encoded in every field.
C23_NetworkParams ==
    EncodedPayloadOf(BIP_NETWORK_PARAMS_SET) =>
        /\ Len(WireItems(wire[1].bytes)) = 8
        /\ WireItems(wire[1].bytes)[1] = BareScalar(BIP_NETWORK_PARAMS_SET)
        /\ IsOptionalItem(WireItems(wire[1].bytes)[2], result.v.blockReward)
        /\ IsOptionalItem(WireItems(wire[1].bytes)[3], result.v.blockRewardPoolAddress)
        /\ IsOptionalItem(WireItems(wire[1].bytes)[4], result.v.targetMiningTimeMs)
        /\ IsOptionalItem(WireItems(wire[1].bytes)[5], result.v.asertHalfLifeBlocks)
        /\ IsOptionalItem(WireItems(wire[1].bytes)[6], result.v.minDifficulty)
        /\ IsOptionalItem(WireItems(wire[1].bytes)[7], result.v.minTxBaseFee)
        /\ IsOptionalItem(WireItems(wire[1].bytes)[8], result.v.minTxByteFee)
        /\ decoded.kind = "payload"
        /\ decoded.v = Some(result.v)

\* Parameters absent, present and zero, and present and not zero have been
\* encoded and read back.
C23_Witness ==
    /\ EncodedPayloadOf(BIP_NETWORK_PARAMS_SET)
    /\ result.v.blockReward = Some(0)
    /\ result.v.blockRewardPoolAddress = Some(NATIVE_TOKEN)
    /\ result.v.targetMiningTimeMs = Null
    /\ result.v.minDifficulty = Some(0)
    /\ result.v.minTxBaseFee = Some(7)
    /\ WireItems(wire[1].bytes)[2] = <<193, 128>>
    /\ WireItems(wire[1].bytes)[4] = <<192>>
    /\ decoded.v = Some(result.v)

\* C24 (optional payload fields): under CodecSpec, for every TOKEN_CREATE
\* and TOKEN_UPDATE payload, an absent optional field is written as 0xc0 and
\* read as absent, a present one (the empty string and maxSupply = 0
\* included) is written as the list of its value and read as that value, and
\* encoding what decodePayload returned gives the same bytes again.
C24_OptionalPayloadFields ==
    /\ EncodedPayloadOf(BIP_TOKEN_CREATE) =>
           /\ WireItems(wire[1].bytes)[5] = OptionalUtf8(result.v.websiteUrl)
           /\ WireItems(wire[1].bytes)[6] = OptionalUtf8(result.v.logoUrl)
           /\ WireItems(wire[1].bytes)[7] = OptionalScalar(result.v.maxSupply)
           /\ decoded.kind = "payload"
           /\ decoded.v[1].websiteUrl = result.v.websiteUrl
           /\ decoded.v[1].logoUrl = result.v.logoUrl
           /\ decoded.v[1].maxSupply = result.v.maxSupply
           /\ encodePayload(decoded.v, V1) = wire[1].bytes
    /\ EncodedPayloadOf(BIP_TOKEN_UPDATE) =>
           /\ WireItems(wire[1].bytes)[3] = OptionalUtf8(result.v.name)
           /\ WireItems(wire[1].bytes)[4] = OptionalUtf8(result.v.smallestUnitName)
           /\ WireItems(wire[1].bytes)[5] = OptionalUtf8(result.v.websiteUrl)
           /\ WireItems(wire[1].bytes)[6] = OptionalUtf8(result.v.logoUrl)
           /\ decoded.kind = "payload"
           /\ decoded.v[1].name = result.v.name
           /\ decoded.v[1].smallestUnitName = result.v.smallestUnitName
           /\ decoded.v[1].websiteUrl = result.v.websiteUrl
           /\ decoded.v[1].logoUrl = result.v.logoUrl
           /\ encodePayload(decoded.v, V1) = wire[1].bytes

\* r, s and the parity of the nonce point before any normalisation, for the
\* nonce k, the signing hash of the transaction returned and its key.
RawSignature(k) == secp256k1_k2sig(k, SignedZ, result.key, FALSE)[1]

\* The signature r, s, v that was derived from the raw one.
NormalisedFrom(raw, signature) ==
    /\ SigR(signature) = raw.r
    /\ SigS(signature) = IF raw.s > HALF_CURVE_ORDER THEN CURVE_N - raw.s ELSE raw.s
    /\ SigV(signature) - 27
           = IF raw.s > HALF_CURVE_ORDER THEN 1 - raw.recovery ELSE raw.recovery
    /\ hexToBytes(signature)
           = Repeat(0, 31) \o <<SigR(signature)>> \o Repeat(0, 31)
                 \o <<SigS(signature), SigV(signature)>>

\* C25 (low-S normalisation): for a transaction returned by sign, the
\* signature carries r of the raw signature, s or n - s when the raw s is
\* above n/2, and v = 27 + the recovery parity, inverted when s was
\* replaced; r and s are 32 big-endian bytes padded on the left; and the
\* signature recovers the signer's address from the signing hash.
C25_LowSNormalisation ==
    result.kind = "tx" =>
        /\ \A k \in secp256k1_nonces(SignedZ, result.key) :
               NormalisedFrom(RawSignature(k), result.v.signature[1])
        /\ SigV(result.v.signature[1]) \in {27, 28}
        /\ recoverAddress(hashForSigning(result.v), result.v.signature[1])
               = Ok(getAddress(result.key))

\* A signature was returned for a raw s above n/2 and a raw parity of 1.
C25_Witness ==
    /\ result.kind = "tx"
    /\ \E k \in secp256k1_nonces(SignedZ, result.key) :
           /\ RawSignature(k).s > HALF_CURVE_ORDER
           /\ RawSignature(k).recovery = 1
           /\ SigS(result.v.signature[1]) = CURVE_N - RawSignature(k).s
    /\ SigV(result.v.signature[1]) = 27

\* A literal of exactly `size` bytes made of hex digits only, or no value.
IsLiteralOf(size, o) ==
    IsNull(o) \/ (Len(o[1]) = 2 * size /\ \A i \in 1..Len(o[1]) : o[1][i] < NonHexDigit)

\* C26 (invalid literals): under LiteralsSpec, sign returns a transaction,
\* and encodeTx its bytes, only if the recipient and the tokenAddress set are
\* literals of 20 bytes and the referenceHash is one of 32 bytes, of hex
\* digits only.
C26_InvalidLiterals ==
    result.kind = "tx" =>
        /\ IsLiteralOf(ADDRESS_SIZE, builder.recipient)
        /\ IsLiteralOf(ADDRESS_SIZE, builder.tokenAddress)
        /\ IsLiteralOf(HASH_SIZE, builder.referenceHash)

\* ------------------------------------------------------------------------
\* One builder used again and again: TxBuilder.from, setters, and the build
\* methods called in any order, also one right after another.  The caller
\* holds the transaction of the first sign that returned.
\* ------------------------------------------------------------------------
\* A build method whose sign hands out one and the same object every time.
Call_sameObject(name, r, kept) ==
    /\ last' = name
    /\ result' = r
    /\ wire' = Null
    /\ decoded' = NoResult
    /\ held' = IF r.kind = "tx" THEN Some(r.v) ELSE kept
    /\ UNCHANGED <<builder, calls>>

\* A build method called whatever was called before.
Call(name, r, kept) ==
    /\ last' = name
    /\ result' = r
    /\ wire' = Null
    /\ decoded' = NoResult
    /\ held' = kept
    /\ UNCHANGED <<builder, calls>>

Again_buildUnsigned ==
    Call("buildUnsigned", Returned("unsigned", buildUnsigned(builder)), held)

\* sign(privateKey): the transaction is a new object; the first is held.
Again_sign(privateKey) ==
    LET unsignedTx == buildUnsigned(builder)
    IN  \E k \in secp256k1_nonces(
                   IF unsignedTx.ok
                   THEN ModOfBytes(hexToBytes(hashForSigning(unsignedTx.v)))
                   ELSE 0,
                   privateKey) :
            Call("sign", Signed(sign(builder, privateKey, k), privateKey),
                 IF IsNull(held) /\ unsignedTx.ok
                 THEN Some(sign(builder, privateKey, k).v) ELSE held)

Again_computeSigningHash ==
    Call("computeSigningHash", Returned("hash", computeSigningHash(builder)), held)

Again_estimateSize == Call("estimateSize", Returned("size", estimateSize(builder)), held)

AgainNext ==
    \/ \E input \in WireInputs : From_once(input)
    \/ SetVersion(V1)
    \/ \E timestamp \in Timestamps : SetTimestamp(timestamp)
    \/ \E type \in {TRANSFER, BIP_VOTE} : SetType(type)
    \/ \E network \in {MAINNET, TESTNET} : SetNetwork(network)
    \/ \E nonce \in Nonces : SetNonce(nonce)
    \/ \E recipient \in {Addr1, Addr2} : SetRecipient(recipient)
    \/ \E tokenAddress \in {Null, Some(NATIVE_TOKEN)} : SetTokenAddress(tokenAddress)
    \/ \E amount \in Amounts : SetAmount(amount)
    \/ \E fee \in Fees : SetFee(fee)
    \/ \E message \in Messages : SetMessage(message)
    \/ \E message \in MessageStrings : SetMessageString(message)
    \/ \E message \in MessageHexes : SetMessageHex(message)
    \/ \E payload \in VotePayloads : SetPayload(payload)
    \/ SetReferenceHash(Hash1)
    \/ Again_buildUnsigned
    \/ \E privateKey \in PrivateKeys : Again_sign(privateKey)
    \/ Again_computeSigningHash
    \/ Again_estimateSize

AgainSpec == Init /\ [][AgainNext]_vars

\* C27 (signed records are frozen): under AgainSpec, once sign has returned
\* a transaction t, no later setter, buildUnsigned, computeSigningHash,
\* estimateSize or sign on the same builder changes a field of t, and
\* t.hash = hashTx(t) and t.size = sizeTx(t) in every later state.
C27_Frozen ==
    /\ [](~IsNull(held) =>
              /\ held[1].hash = Some(hashTx(held[1]))
              /\ held[1].size = sizeTx(held[1]))
    /\ [][~IsNull(held) => held' = held]_vars

\* After a transaction was signed and held, a setter changed the builder and
\* sign returned another transaction.
C27_Witness ==
    /\ ~IsNull(held)
    /\ last = "sign"
    /\ result.kind = "tx"
    /\ result.v.nonce # held[1].nonce
    /\ result.v.hash # held[1].hash

\* C28 (estimateSize and the signed size): the size of the transaction sign
\* returned is what estimateSize returns on the same builder plus the 65
\* bytes of the signature.
C28_EstimatePlusSignature ==
    result.kind = "tx" => result.v.size = estimateSize(builder).v + SIGNATURE_SIZE

\* The build methods, and the builder field each setter assigns.
TerminalMethods == {"buildUnsigned", "computeSigningHash", "estimateSize", "sign"}

SetterField ==
    [version |-> "version", timestamp |-> "timestamp", type |-> "type",
     network |-> "network", nonce |-> "nonce", recipient |-> "recipient",
     tokenAddress |-> "tokenAddress", amount |-> "amount", fee |-> "fee",
     message |-> "message", messageString |-> "message", messageHex |-> "message",
     payload |-> "payload", referenceHash |-> "referenceHash"]

\* The step of a build method leaves the builder as it is, the step of a
\* setter leaves every field but its own, and sign called right after sign
\* with the same key returns a transaction equal in every field.
TerminalStep ==
    /\ last' \in TerminalMethods => builder' = builder
    /\ (calls' = calls + 1 /\ last' \in DOMAIN SetterField) =>
           \A field \in DOMAIN builder \ {SetterField[last']} :
               builder'[field] = builder[field]
    /\ (last = "sign" /\ last' = "sign" /\ result.kind = "tx" /\ result'.kind = "tx"
            /\ result'.key = result.key) => result'.v = result.v

\* C30 (terminal operations): under AgainSpec, buildUnsigned,
\* computeSigningHash, estimateSize and sign leave every builder field
\* unchanged, a setter changes its own field only, what computeSigningHash
\* returns is hashForSigning of the transaction sign returns for every key,
\* and two consecutive sign calls with one key return equal transactions.
C30_TerminalAgree ==
    /\ [][TerminalStep]_vars
    /\ []((last = "computeSigningHash" /\ result.kind = "hash") =>
              \A privateKey \in PrivateKeys :
                  \A k \in secp256k1_nonces(ModOfBytes(hexToBytes(result.v)), privateKey) :
                      hashForSigning(sign(builder, privateKey, k).v) = result.v)

\* computeSigningHash returned on a builder that has signed before and had
\* its nonce set again since.
C30_Witness ==
    /\ last = "computeSigningHash"
    /\ result.kind = "hash"
    /\ ~IsNull(held)
    /\ held[1].nonce # builder.nonce
    /\ builder.fee # 0

\* C29 (canonical decoding): under WireSpec, whenever decodeTx returns a
\* transaction for the bytes it was given, encodeTx of that transaction
\* with its signature gives those bytes again.
C29_CanonicalDecoding ==
    decoded.kind = "tx" => encodeTx(decoded.v, TRUE) = wire[1].bytes

====
